---------------------------- MODULE Spec2Model ----------------------------
(***************************************************************************)
(* Model of the zynaudioplayer library (player.c): the registry of player  *)
(* instances, the control surface of one instance, its file reader thread  *)
(* (file_thread_fn) and the JACK process callback (on_jack_process).       *)
(*                                                                         *)
(* Three contexts run interleaved on one instance: the control thread      *)
(* (position cpc), the file reader thread (position tpc) and the JACK      *)
(* real-time thread (position jpc).  Each action is one block of           *)
(* statements of the source between two points where another context can  *)
(* observe or change the shared fields.                                    *)
(*                                                                         *)
(* Samples are counted in frames.  Floats are kept in hundredths (FOne);   *)
(* sample rates are counted in units of the host's rate at start-up.       *)
(* When src_ratio times the pitch factor is 1.0 the reader takes the       *)
(* branch that reads straight into the output buffer; otherwise the block  *)
(* goes through the converter, whose output is the library's.  Files have  *)
(* one channel where audio flows; the setters of the channel selectors     *)
(* are run against files of one and of two channels, and the demux of one  *)
(* frame is modelled with sample values for up to MaxDemuxChannels         *)
(* channels.  The MIDI part of the callback handles one event a period.    *)
(*                                                                         *)
(* The notifications (send_notifications) are modelled with the shadow     *)
(* fields and a record of the calls of cb_fn a step makes; a pass is one   *)
(* step.  They are followed in the specifications SpecNotify and           *)
(* SpecNotifyMidi only; the other specifications leave them out.           *)
(*                                                                         *)
(* The Pattern class of zynseq (pattern.cpp) is modelled on its own: its   *)
(* event list, the calls that edit it, its undo queue and setStepsPerBeat. *)
(***************************************************************************)
EXTENDS Integers, Sequences, FiniteSets, TLC

(* ------------------------------ bounds --------------------------------- *)
\* buffer_size in frames (48000 in init(); set_buffer_size changes it)
BufferSize == 2
\* buffer_count (5 in init(); set_buffer_count changes it)
BufferCount == 2
\* nFrames of one JACK period
NFrames == 2
\* longest file, in frames
MaxFileFrames == 3
\* latest position set_position is asked for, in frames
MaxSeek == 1
\* how far from either end of g_players the handles passed by callers lie
EdgeWidth == 2
\* most channels a file has
MaxChannels == 2
\* most channels of a frame that is demuxed
MaxDemuxChannels == 3
\* most snapshots on a pattern's undo queue
MaxSnapshots == 3
\* how far below 127 the notes of a pattern are transposed
NoteSpan == 1

(* --------------------------- program constants ------------------------- *)
MAX_PLAYERS == 16

STOPPED == 0
STARTING == 1
PLAYING == 2
STOPPING == 3

IDLE == 0
SEEKING == 1
LOADING == 2
LOOPING == 3

\* libsamplerate converter types: set_src_quality accepts 0..SRC_LINEAR
SRC_SINC_FASTEST == 2
\* the status bytes of line 735 and 747, and the note of line 743
NOTE_OFF == 128
NOTE_ON == 144
PITCH_BEND == 224
MIDDLE_C == 60
SRC_LINEAR == 4

\* Floats (gain) are written in hundredths; FNaN is the value that is not a
\* number, which every ordered comparison answers with false.
FNaN == 0 - 1000
FOne == 100
\* one semitone, the 1.059463094359 of line 336
Semitone == 106
FLess(a, b) == a # FNaN /\ b # FNaN /\ a < b
FGreater(a, b) == a # FNaN /\ b # FNaN /\ a > b

\* jack_nframes_t is 32 bits wide, unsigned.  The model checker's integers
\* end at 2^31 - 1, so the values 2^31 .. 2^32 - 1 are written as the
\* negative numbers with the same bits: UIntMax is 2^32 - 1.
UIntMax == 0 - 1
\* unsigned a + n for a small n >= 0: the same bits as the signed sum
UAdd(a, n) == a + n
\* unsigned a >= b for a small b >= 0
UGe(a, b) == a < 0 \/ a >= b
\* unsigned a % m for a small m > 0: 2^32 + a reduced modulo m
UMod(a, m) ==
    IF a >= 0 THEN a % m
    ELSE ((((65536 % m) * (65536 % m)) % m) + (a % m)) % m

(* ------------------------------- files --------------------------------- *)
\* A path names a file sf_open can open (with its frame count, channels and
\* sample rate) or one it cannot; the empty filename is one it cannot.
\* Sample rates are counted in units of the rate jackd starts with.
FileLengths == {0, MaxFileFrames}
GoodFiles == {[opens |-> TRUE, frames |-> n, channels |-> 1, samplerate |-> 1] :
                 n \in FileLengths}
EmptyName == [opens |-> FALSE, frames |-> 0, channels |-> 0, samplerate |-> 0]
Files == GoodFiles \cup {EmptyName}

Min(a, b) == IF a < b THEN a ELSE b

VARIABLES
    \* ---- registry ----
    g_players,          \* slot -> handle field of the instance stored there, or NoPlayer
    regOp,              \* the last registry call: "none", "init", "remove", "lookup"
    regArg,             \* its argument: the handle, or for init whether JACK accepts
    regRet,             \* what it returned (a handle, NoPlayer or Wild)
    oobRead,            \* that call indexed g_players outside 0..MAX_PLAYERS-1
    \* ---- fields of struct AUDIO_PLAYER ----
    file_open,          \* 0 closed, 1 opening, 2 open
    file_read_status,
    play_state,
    loop,
    play_pos_frames,
    frames,             \* frames after samplerate conversion
    filename,
    cb_fn,              \* TRUE when a notification target is registered
    ringbuffer_a,       \* contents: source frame numbers, oldest first
    ringbuffer_b,
    rings,              \* the two ring pointers: "null", "alloc" or "freed" (dangling)
    gain,               \* a float, see the section on floats
    src_quality,
    buffer_size,        \* frames per block read from the file
    buffer_count,       \* blocks a ring holds
    track_a,            \* channel sent to output A, negative to mix
    track_b,
    setOp,              \* history: the last setter called other than set_gain, or "none"
    setArg,             \* history: its argument
    \* ---- file reader thread ----
    tst,                \* "none", "running" or "exited" (and not yet joined)
    tpc,
    filePos,            \* read position of pFile
    nNewPos,
    nFramesRead,
    frame,              \* index of the demux loop
    \* ---- control thread ----
    cpc,
    cret,               \* where unload returns to: "api", "load", "fail"
    lastop,             \* the call that returned last and its result: "none",
                        \* "unload", "load_true", "load_false", "load_nothread"
    quiet,              \* TRUE once the caller issues no further calls
    \* ---- a second control context (only unload) ----
    bpc,
    \* ---- JACK process callback ----
    jpc,
    count,
    loopAtEntry,        \* history: loop when the running callback started
    seekReq,            \* history: the frame the last statement-by-statement
                        \* set_position asked for, until the status leaves SEEKING
    \* ---- sf_info ----
    channels,           \* sf_info.channels once a file has opened
    \* ---- MIDI ----
    pitch_shift,        \* semitones; written at line 317 before it is read
    last_note_played,
    midiBuf,            \* the event the MIDI port holds for the period, or NoEvent
    \* ---- sample rates ----
    g_samplerate,       \* the rate jackd reported
    src_ratio,          \* g_samplerate / sf_info.samplerate, in hundredths
    \* ---- the reader thread's converter ----
    srcOne,             \* srcData.src_ratio == 1.0
    nUnusedFrames,      \* input frames the converter left unused
    \* ---- one frame of the demux (lines 413-437) ----
    pBufferOut,         \* the samples of the frame, one per channel
    dmxA,               \* track_a and track_b when the frame is demuxed
    dmxB,
    fA,                 \* the samples written to ring A and ring B, or NoSample
    fB,
    \* ---- a Pattern (pattern.cpp) ----
    m_vEvents,          \* the events, in the order of the vector
    m_vSnapshots,       \* the undo queue: copies of the event vector
    m_vSnapshotPos,     \* index into m_vSnapshots, from 1
    m_nStepsPerBeat,
    m_nBeats,
    patOp,              \* history: the last method called and its argument
    patRet,             \* history: what it returned
    \* ---- notifications (send_notifications) ----
    last_play_state,    \* the values at the last notification
    last_position,      \* in hundredths of a second
    last_gain,
    last_loop,
    last_track_a,
    last_track_b,
    last_src_quality,
    g_debug,
    g_last_debug,
    cbCalls,            \* history: the calls of cb_fn the last step made, in order
    cbCtx,              \* history: the context that step ran in, or "none"
    ntfParam,           \* history: the param of its last send_notifications
    \* ---- the process ----
    divTraps,           \* the build: an integer division by zero traps (x86) or not (ARM)
    fault               \* TRUE once the process has been killed by a fault

regVars == <<g_players, regOp, regArg, regRet, oobRead>>
fieldVars == <<file_open, file_read_status, play_state, loop, play_pos_frames,
               frames, filename, cb_fn, ringbuffer_a, ringbuffer_b, rings>>
setVars == <<gain, src_quality, buffer_size, buffer_count, setOp, setArg>>
trackVars == <<track_a, track_b>>
threadVars == <<tst, tpc, filePos, nNewPos, nFramesRead, frame>>
ctlVars == <<cpc, cret, lastop, quiet>>
jackVars == <<jpc, count, loopAtEntry>>
midiVars == <<pitch_shift, last_note_played, midiBuf>>
rateVars == <<g_samplerate, src_ratio>>
srcVars == <<srcOne, nUnusedFrames>>
dmxVars == <<pBufferOut, dmxA, dmxB, fA, fB>>
patVars == <<m_vEvents, m_vSnapshots, m_vSnapshotPos, m_nStepsPerBeat, m_nBeats,
             patOp, patRet>>
playerVars == <<regVars, fieldVars, threadVars, ctlVars, bpc, jackVars,
               seekReq, divTraps, midiVars, rateVars, srcVars, setVars, trackVars,
               channels, fault>>
ntfVars == <<last_play_state, last_position, last_gain, last_loop, last_track_a,
             last_track_b, last_src_quality, g_debug, g_last_debug,
             cbCalls, cbCtx, ntfParam>>
ntfRest == <<last_gain, last_loop, last_track_a, last_track_b, last_src_quality,
             g_debug, g_last_debug, cbCalls, cbCtx, ntfParam>>
vars == <<playerVars, dmxVars, patVars, ntfVars>>

\* The MIDI port buffer of a period holds at most one event; done says the
\* port holds nothing the callback still has to look at.
NoEvent == [cmd |-> 0, note |-> 0, vel |-> 0, done |-> TRUE]

\* NULL in g_players, and the -1 init() returns on failure
NoPlayer == 0 - 1
\* a pointer read from outside g_players
Wild == 0 - 2
\* a sample the converter generated
Resampled == 0 - 2
\* no set_position is waiting for the reader thread
NoSeek == 0 - 1
\* a field malloc() left unwritten, or that a failed sf_open left behind
Indeterminate == 0 - 1

(* ------------------------------- Init ---------------------------------- *)
\* The fields of a new instance (init(), lines 823-839), no thread, no call
\* in progress.
InitInstance ==
    /\ file_open = 0
    /\ file_read_status = IDLE
    /\ play_state = STOPPED
    /\ loop = 0
    /\ play_pos_frames = 0
    /\ frames = 0
    /\ filename = EmptyName
    /\ cb_fn = FALSE
    /\ ringbuffer_a = <<>>
    /\ ringbuffer_b = <<>>
    /\ rings = "null"
    /\ gain = FOne
    /\ src_quality = SRC_SINC_FASTEST
    /\ buffer_size = BufferSize
    /\ buffer_count = BufferCount
    /\ track_a = 0
    /\ track_b = 0
    /\ setOp = "none"
    /\ setArg = 0
    /\ tst = "none"
    /\ tpc = "none"
    /\ filePos = 0
    /\ nNewPos = 0
    /\ nFramesRead = 0
    /\ frame = 0
    /\ cpc = "idle"
    /\ cret = "api"
    /\ lastop = "none"
    /\ quiet = FALSE
    /\ bpc = "idle"
    /\ jpc = "idle"
    /\ count = 0
    /\ loopAtEntry = 0
    /\ seekReq = NoSeek
    /\ channels = Indeterminate
    /\ pitch_shift = 0
    /\ last_note_played = 0
    /\ midiBuf = NoEvent
    /\ g_samplerate = 1
    /\ src_ratio = Indeterminate
    /\ srcOne = TRUE
    /\ nUnusedFrames = 0
    /\ divTraps \in BOOLEAN
    /\ fault = FALSE

\* The registry before any init(): g_players is zero-initialised (line 92).
EmptyRegistry ==
    /\ g_players = [i \in 0..(MAX_PLAYERS - 1) |-> NoPlayer]
    /\ regOp = "none"
    /\ regArg = 0
    /\ regRet = NoPlayer
    /\ oobRead = FALSE

\* The player specifications start after one init(): the instance has
\* handle 0 and sits in slot 0.
InitPlayer ==
    /\ g_players = [i \in 0..(MAX_PLAYERS - 1) |-> IF i = 0 THEN 0 ELSE NoPlayer]
    /\ regOp = "none"
    /\ regArg = 0
    /\ regRet = NoPlayer
    /\ oobRead = FALSE
    /\ InitInstance

\* no frame is being demuxed
NoSample == 0 - 1
NoFrame ==
    /\ pBufferOut = <<>>
    /\ dmxA = 0
    /\ dmxB = 0
    /\ fA = NoSample
    /\ fB = NoSample

\* init(), lines 823-839, and lines 94-95: of the shadows only last_track_a
\* and last_track_b are written.  No pass reads a shadow before the thread
\* has opened a file (line 198), and that stores last_play_state and
\* last_position (lines 300-301): they start as what it stores.  Nothing has
\* been notified.
NoNotification ==
    /\ last_play_state = 0 - 1
    /\ last_position = 0 - FOne
    /\ last_gain = Indeterminate
    /\ last_loop = Indeterminate
    /\ last_track_a = 0
    /\ last_track_b = 0
    /\ last_src_quality = Indeterminate
    /\ g_debug = 0
    /\ g_last_debug = 0
    /\ cbCalls = <<>>
    /\ cbCtx = "none"
    /\ ntfParam = "none"

\* no Pattern has been constructed
NoPattern ==
    /\ m_vEvents = <<>>
    /\ m_vSnapshots = <<>>
    /\ m_vSnapshotPos = 0
    /\ m_nStepsPerBeat = 0
    /\ m_nBeats = 0
    /\ patOp = [name |-> "none", arg |-> 0]
    /\ patRet = FALSE

Init == InitPlayer /\ NoFrame /\ NoPattern /\ NoNotification

\* sf_info.frames: the frame count sf_open reports for the file loaded
sf_frames == filename.frames
sf_samplerate == filename.samplerate

\* line 313: (float)g_samplerate / sf_info.samplerate, in hundredths
SrcRatio(rate, filerate) == (rate * FOne) \div filerate

\* lines 320-323: the frames of the file after samplerate conversion
FramesAfterSrc(n, filerate, ratio) ==
    IF filerate # 0 THEN (n * ratio) \div FOne ELSE n

\* pow(1.059463094359, shift), in hundredths
RECURSIVE PitchFactor(_)
PitchFactor(shift) ==
    IF shift = 0 THEN FOne
    ELSE IF shift > 0 THEN (PitchFactor(shift - 1) * Semitone) \div FOne
    ELSE (PitchFactor(shift + 1) * FOne) \div Semitone

\* line 336: srcData.src_ratio of a seek
SeekRatio(ratio, shift) == (ratio * PitchFactor(shift)) \div FOne

\* lines 337-341: the file position of a play position
SeekPosition(pos, ratio) == IF ratio # 0 THEN (pos * FOne) \div ratio ELSE pos

(* ------------------------- ring buffer helpers ------------------------- *)
\* jack_ringbuffer_create(buffer_size * buffer_count * sizeof(float))
RingCapacity == buffer_size * buffer_count
WriteSpace(rb) == RingCapacity - Len(rb)
Drop(rb, n) == SubSeq(rb, n + 1, Len(rb))

(* ====================== control surface (one caller) =================== *)
\* stop_playback: play_state != STOPPED -> STOPPING
StopPlaybackState(ps) == IF ps # STOPPED THEN STOPPING ELSE ps

\* start_playback: file open and not already playing -> STARTING
StartPlaybackState(fo, ps) == IF fo = 2 /\ ps # PLAYING THEN STARTING ELSE ps

\* a faulted process runs nothing more
CtlAt(l) == ~fault /\ cpc = l
CallerFree == CtlAt("idle") /\ bpc = "idle" /\ ~quiet

start_playback ==
    /\ CallerFree
    /\ play_state' = StartPlaybackState(file_open, play_state)
    /\ lastop' = "none"
    /\ UNCHANGED <<regVars, file_open, file_read_status, loop, play_pos_frames,
                   frames, filename, cb_fn, ringbuffer_a, ringbuffer_b, rings,
                   threadVars, cpc, cret, quiet, bpc, jackVars, seekReq, divTraps, dmxVars, patVars, ntfVars, midiVars, rateVars, srcVars, setVars, trackVars, channels, fault>>

stop_playback ==
    /\ CallerFree
    /\ play_state' = StopPlaybackState(play_state)
    /\ lastop' = "none"
    /\ UNCHANGED <<regVars, file_open, file_read_status, loop, play_pos_frames,
                   frames, filename, cb_fn, ringbuffer_a, ringbuffer_b, rings,
                   threadVars, cpc, cret, quiet, bpc, jackVars, seekReq, divTraps, dmxVars, patVars, ntfVars, midiVars, rateVars, srcVars, setVars, trackVars, channels, fault>>

\* enable_loop: the status is moved to LOOPING under "file_open != 2"
EnableLoopStatus(fo, bLoop, st) ==
    IF fo # 2 /\ bLoop = 1 /\ st = IDLE THEN LOOPING ELSE st

enable_loop(bLoop) ==
    /\ CallerFree
    /\ loop' = bLoop
    /\ file_read_status' = EnableLoopStatus(file_open, bLoop, file_read_status)
    /\ lastop' = "none"
    /\ UNCHANGED <<regVars, file_open, play_state, play_pos_frames,
                   frames, filename, cb_fn, ringbuffer_a, ringbuffer_b, rings,
                   threadVars, cpc, cret, quiet, bpc, jackVars, seekReq, divTraps, dmxVars, patVars, ntfVars, midiVars, rateVars, srcVars, setVars, trackVars, channels, fault>>

\* set_position: time in frame periods of the file.  The request is clamped
\* to the duration, scaled by src_ratio, then clamped to frames - 1; with frames == 0 that wraps to the
\* largest size_t.  The conversion of that double, or of a negative one, to
\* jack_nframes_t is undefined: it saturates to 0 or keeps the low 32 bits.
SetPositionTargets(t) ==
    LET time == Min(t, sf_frames)
        scaled == src_ratio * time
    IN  IF scaled >= frames * FOne
        THEN IF frames > 0 THEN {frames - 1} ELSE {0, UIntMax}
        ELSE IF scaled < 0 THEN {0, UIntMax}
        ELSE {scaled \div FOne}

\* the request is one the instance can honour: 0 <= t < duration
SeekInRange(t) == 0 <= t /\ t < frames

\* lines 557-560: the position and the status are stored, ring B is reset
SetPositionStores(t) ==
    /\ play_pos_frames' \in SetPositionTargets(t)
    /\ file_read_status' = SEEKING
    /\ ringbuffer_b' = <<>>

\* set_position(), lines 549-568, with no other context running between
\* its statements
set_position(t) ==
    /\ CallerFree
    /\ lastop' = "none"
    /\ IF file_open # 2
       THEN UNCHANGED <<play_pos_frames, file_read_status, ringbuffer_a,
                        ringbuffer_b>>
       ELSE /\ SetPositionStores(t)
            /\ ringbuffer_a' = <<>>
    /\ UNCHANGED <<regVars, file_open, play_state, loop, frames, filename, cb_fn,
                   rings, threadVars, cpc, cret, quiet, bpc, jackVars,
                   seekReq, divTraps, dmxVars, patVars, ntfVars, midiVars, rateVars, srcVars, setVars, trackVars, channels, fault>>

\* set_position() statement by statement.  Lines 549-560: ring B is reset
\* first, the other contexts run before ring A is.
SetPositionResetB(t) ==
    /\ CallerFree
    /\ lastop' = "none"
    /\ IF file_open # 2
       THEN UNCHANGED <<play_pos_frames, file_read_status, ringbuffer_b, cpc, seekReq>>
       ELSE /\ SetPositionStores(t)
            /\ seekReq' = IF SeekInRange(t) THEN t ELSE NoSeek
            /\ cpc' = "setpos_a"
    /\ UNCHANGED <<regVars, file_open, play_state, loop, frames, filename, cb_fn,
                   ringbuffer_a, rings, threadVars, cret, quiet, bpc, jackVars,
                   divTraps, dmxVars, patVars, ntfVars, midiVars, rateVars, srcVars, setVars, trackVars, channels, fault>>

\* line 561: jack_ringbuffer_reset(pPlayer->ringbuffer_a)
SetPositionResetA ==
    /\ CtlAt("setpos_a")
    /\ ringbuffer_a' = <<>>
    /\ cpc' = "idle"
    /\ UNCHANGED <<regVars, file_open, file_read_status, play_state, loop,
                   play_pos_frames, frames, filename, cb_fn, ringbuffer_b, rings,
                   threadVars, cret, lastop, quiet, bpc, jackVars,
                   seekReq, divTraps, dmxVars, patVars, ntfVars, midiVars, rateVars, srcVars, setVars, trackVars, channels, fault>>

\* The caller stops issuing calls.
Quiesce ==
    /\ CallerFree
    /\ quiet' = TRUE
    /\ UNCHANGED <<regVars, fieldVars, threadVars, cpc, cret, lastop,
                   bpc, jackVars, seekReq, divTraps, dmxVars, patVars, ntfVars, midiVars, rateVars, srcVars, setVars, trackVars, channels, fault>>


(* ------------------------------ unload --------------------------------- *)
\* unload(): lines 516-525.  It is called by the API, by load() before it
\* starts a new thread (cret = "load") and by load() when pthread_create
\* failed (cret = "fail").

\* Where the control thread continues when unload returns: in load (line
\* 484), or in the caller, of unload or of load (line 497, return 0).
UnloadReturnPc(r) == IF r = "load" THEN "load_spawn" ELSE "idle"
UnloadReturnOp(r) ==
    IF r = "api" THEN "unload" ELSE IF r = "fail" THEN "load_nothread" ELSE "none"

\* line 518: nothing to do on a closed instance
UnloadNothingToDo(fo) == fo = 0

\* lines 518-521 for a call that continues at r when it returns: either
\* the call returns at once, or playback is stopped, file_open cleared and
\* the caller goes on to join the thread.
UnloadEnter(fo, r) ==
    IF UnloadNothingToDo(fo)
    THEN /\ cpc' = UnloadReturnPc(r)
         /\ lastop' = UnloadReturnOp(r)
         /\ cret' = "api"
         /\ file_open' = fo
         /\ UNCHANGED play_state
    ELSE /\ play_state' = StopPlaybackState(play_state)
         /\ file_open' = 0
         /\ cpc' = "unl_join"
         /\ cret' = r
         /\ lastop' = "none"

CallUnload ==
    /\ CallerFree
    /\ UnloadEnter(file_open, "api")
    /\ UNCHANGED <<regVars, file_read_status, loop, play_pos_frames,
                   frames, filename, cb_fn, ringbuffer_a, ringbuffer_b, rings,
                   threadVars, quiet, bpc, jackVars, seekReq, divTraps, dmxVars, patVars, ntfVars, midiVars, rateVars, srcVars, setVars, trackVars, channels, fault>>

\* pPlayer->file_thread names a thread that can be joined
ThreadJoinable(r, ts) == r # "fail" /\ ts \in {"running", "exited"}

\* pthread_join returns once the thread has exited
JoinReturns(ts) == ts = "exited"

\* lines 523-524
UnloadJoin ==
    /\ CtlAt("unl_join")
    /\ ThreadJoinable(cret, tst)
    /\ JoinReturns(tst)
    /\ tst' = "none"
    /\ filename' = EmptyName
    /\ cpc' = UnloadReturnPc(cret)
    /\ lastop' = UnloadReturnOp(cret)
    /\ cret' = "api"
    /\ UNCHANGED <<regVars, file_open, file_read_status, play_state, loop,
                   play_pos_frames, frames, cb_fn, ringbuffer_a, ringbuffer_b, rings,
                   tpc, filePos, nNewPos, nFramesRead, frame,
                   quiet, bpc, jackVars, seekReq, divTraps, dmxVars, patVars, ntfVars, midiVars, rateVars, srcVars, setVars, trackVars, channels, fault>>

\* lines 523-524 when pthread_create failed: file_thread is not the id of a
\* thread that can be joined, which is undefined; pthread_join returns an
\* error at once (reaping a stale unjoined thread when the id still names
\* one) or the process faults.
UnloadJoinInvalid ==
    /\ CtlAt("unl_join")
    /\ ~ThreadJoinable(cret, tst)
    /\ \/ /\ fault' = TRUE
          /\ UNCHANGED <<tst, filename, cpc, lastop, cret>>
       \/ /\ tst' \in {tst, "none"}
          /\ filename' = EmptyName
          /\ cpc' = UnloadReturnPc(cret)
          /\ lastop' = UnloadReturnOp(cret)
          /\ cret' = "api"
          /\ UNCHANGED fault
    /\ UNCHANGED <<regVars, file_open, file_read_status, play_state, loop,
                   play_pos_frames, frames, cb_fn, ringbuffer_a, ringbuffer_b, rings,
                   tpc, filePos, nNewPos, nFramesRead, frame,
                   quiet, bpc, jackVars, seekReq, divTraps, dmxVars, patVars, ntfVars, midiVars, rateVars, srcVars, setVars, trackVars, channels>>

(* ------------------------------- load ---------------------------------- *)
\* load(): lines 479-514.  Line 483 calls unload first.
CallLoad ==
    /\ CallerFree
    /\ UnloadEnter(file_open, "load")
    /\ UNCHANGED <<regVars, file_read_status, loop, play_pos_frames,
                   frames, filename, cb_fn, ringbuffer_a, ringbuffer_b, rings,
                   threadVars, quiet, bpc, jackVars, seekReq, divTraps, dmxVars, patVars, ntfVars, midiVars, rateVars, srcVars, setVars, trackVars, channels, fault>>

\* lines 484-498: f is the path passed to load, created whether
\* pthread_create succeeds.  The new thread's id overwrites file_thread: a
\* thread that exited and was never joined can no longer be joined.  When
\* pthread_create fails, load calls unload with file_open == 1 (line 496).
LoadSpawn(f, created) ==
    /\ CtlAt("load_spawn")
    /\ track_a' = 0
    /\ track_b' = 0
    /\ filename' = f
    /\ IF created
       THEN /\ file_open' = 1
            /\ tst' = "running"
            /\ tpc' = "open"
            /\ cpc' = "load_poll"
            /\ UNCHANGED <<cret, lastop, play_state>>
       ELSE /\ UnloadEnter(1, "fail")
            /\ UNCHANGED <<tst, tpc>>
    /\ UNCHANGED <<regVars, file_read_status, loop, play_pos_frames,
                   frames, cb_fn, ringbuffer_a, ringbuffer_b, rings,
                   filePos, nNewPos, nFramesRead, frame,
                   quiet, bpc, jackVars, seekReq, divTraps, dmxVars, patVars, ntfVars, midiVars, rateVars, srcVars, setVars, channels, fault>>

\* A load that does not wait for the reader thread.
LoadNeverWaits == TRUE

\* line 499: the polling loop ends when file_open is no longer 1
LoadWaitOver == file_open # 1

LoadPoll ==
    /\ CtlAt("load_poll")
    /\ LoadWaitOver
    /\ cpc' = "load_cb"
    /\ UNCHANGED <<regVars, fieldVars, threadVars, cret, lastop, quiet,
                   bpc, jackVars, seekReq, divTraps, dmxVars, patVars, ntfVars, midiVars, rateVars, srcVars, setVars, trackVars, channels, fault>>

\* lines 503-505
LoadCb ==
    /\ CtlAt("load_cb")
    /\ cb_fn' = IF file_open # 0 THEN TRUE ELSE cb_fn
    /\ cpc' = "load_ret"
    /\ UNCHANGED <<regVars, file_open, file_read_status, play_state, loop,
                   play_pos_frames, frames, filename, ringbuffer_a, ringbuffer_b,
                   rings, threadVars, cret, lastop, quiet, bpc, jackVars, seekReq, divTraps, dmxVars, patVars, ntfVars, midiVars, rateVars, srcVars, setVars, trackVars, channels, fault>>

\* line 513: return (pPlayer->file_open == 2)
LoadResult == IF file_open = 2 THEN "load_true" ELSE "load_false"

LoadRet ==
    /\ CtlAt("load_ret")
    /\ lastop' = LoadResult
    /\ cret' = "api"
    /\ cpc' = "idle"
    /\ UNCHANGED <<regVars, fieldVars, threadVars, quiet, bpc, jackVars, seekReq, divTraps, dmxVars, patVars, ntfVars, midiVars, rateVars, srcVars, setVars, trackVars, channels, fault>>

(* ======================= file reader thread ============================ *)
\* file_thread_fn(): lines 272-475.
ThreadAt(l) == ~fault /\ tst = "running" /\ tpc = l

\* line 285: sf_open failed or the file has no channel
SfOpenFails(f) == ~f.opens \/ f.channels < 1

\* line 281: buffer_size / sf_info.channels is computed before sf_open has
\* written sf_info; the divisor is whatever the structure holds
ChannelsMayBeZero == channels = Indeterminate

\* lines 274-297: the ring pointers are cleared, the file is opened; on
\* failure file_open is cleared and the thread exits (nobody joins it).
ThreadOpen ==
    /\ ThreadAt("open")
    /\ \E zero \in {z \in BOOLEAN : z => ChannelsMayBeZero} :
        IF zero /\ divTraps
        THEN /\ fault' = TRUE
             /\ UNCHANGED <<rings, file_open, tst, tpc, filePos, channels>>
        ELSE /\ UNCHANGED fault
             /\ rings' = "null"
             /\ IF SfOpenFails(filename)
                THEN /\ file_open' = 0
                     /\ tst' = "exited"
                     /\ tpc' = "none"
                     /\ channels' = Indeterminate
                     /\ UNCHANGED filePos
                ELSE /\ filePos' = 0
                     /\ tpc' = "init"
                     /\ channels' = filename.channels
                     /\ UNCHANGED <<file_open, tst>>
    /\ UNCHANGED <<regVars, file_read_status, play_state, loop, play_pos_frames,
                   frames, filename, cb_fn, ringbuffer_a, ringbuffer_b,
                   nNewPos, nFramesRead, frame, ctlVars, bpc, jackVars,
                   seekReq, setVars, trackVars, divTraps, dmxVars, patVars, ntfVars, midiVars, rateVars, srcVars>>

\* line 298: the thread goes on to open the instance unless file_open is 0
ThreadNotCancelled == file_open # 0

\* lines 298-325: the fields are reset and the ring buffers created.
ThreadInit ==
    /\ ThreadAt("init")
    /\ IF ThreadNotCancelled
       THEN /\ cb_fn' = FALSE
            /\ play_pos_frames' = 0
            /\ file_read_status' = SEEKING
            /\ ringbuffer_a' = <<>>
            /\ ringbuffer_b' = <<>>
            /\ rings' = "alloc"
            /\ src_ratio' = SrcRatio(g_samplerate, sf_samplerate)
            /\ srcOne' = (src_ratio' = FOne)
            /\ pitch_shift' = 0
            /\ frames' = FramesAfterSrc(sf_frames, sf_samplerate, src_ratio')
            /\ seekReq' = NoSeek
            /\ last_play_state' = 0 - 1
            /\ last_position' = 0 - FOne
            /\ tpc' = "setopen"
       ELSE /\ tpc' = "loop"
            /\ UNCHANGED <<cb_fn, play_pos_frames, file_read_status, ringbuffer_a,
                           ringbuffer_b, rings, frames, seekReq, src_ratio,
                           srcOne, pitch_shift, last_play_state, last_position>>
    /\ UNCHANGED <<regVars, file_open, play_state, loop, filename,
                   tst, filePos, nNewPos, nFramesRead, frame,
                   ctlVars, bpc, jackVars, divTraps, dmxVars, patVars, ntfRest, last_note_played, midiBuf,
                   g_samplerate, nUnusedFrames, setVars, trackVars, channels, fault>>

\* line 327
ThreadSetOpen ==
    /\ ThreadAt("setopen")
    /\ file_open' = 2
    /\ tpc' = "loop"
    /\ UNCHANGED <<regVars, file_read_status, play_state, loop, play_pos_frames,
                   frames, filename, cb_fn, ringbuffer_a, ringbuffer_b, rings,
                   tst, filePos, nNewPos, nFramesRead, frame,
                   ctlVars, bpc, jackVars, seekReq, divTraps, dmxVars, patVars, ntfVars, midiVars, rateVars, srcVars, setVars, trackVars, channels, fault>>

\* lines 331-357: while(pPlayer->file_open == 2); a seek request resets
\* the rings, sets the converter's ratio from src_ratio and pitch_shift and
\* takes the play position, divided by that ratio, as the new file
\* position; a loop request rewinds the file.
ThreadLoop ==
    /\ ThreadAt("loop")
    /\ IF file_open # 2
       THEN /\ tpc' = "exit"
            /\ UNCHANGED <<ringbuffer_a, ringbuffer_b, nNewPos, file_read_status,
                           filePos, srcVars>>
       ELSE IF file_read_status = SEEKING
       THEN /\ ringbuffer_a' = <<>>
            /\ ringbuffer_b' = <<>>
            /\ srcOne' = (SeekRatio(src_ratio, pitch_shift) = FOne)
            /\ nNewPos' = SeekPosition(play_pos_frames,
                                       SeekRatio(src_ratio, pitch_shift))
            /\ tpc' = "seek"
            /\ UNCHANGED <<file_read_status, filePos, nUnusedFrames>>
       ELSE IF file_read_status = LOOPING
       THEN /\ filePos' = 0
            /\ file_read_status' = LOADING
            /\ nUnusedFrames' = 0
            /\ tpc' = "load"
            /\ UNCHANGED <<ringbuffer_a, ringbuffer_b, nNewPos, srcOne>>
       ELSE /\ tpc' = "load"
            /\ UNCHANGED <<ringbuffer_a, ringbuffer_b, nNewPos, file_read_status,
                           filePos, srcVars>>
    /\ UNCHANGED <<regVars, file_open, play_state, loop, play_pos_frames, frames,
                   filename, cb_fn, rings, tst, nFramesRead, frame,
                   ctlVars, bpc, jackVars, seekReq, divTraps, dmxVars, patVars, ntfVars, midiVars, rateVars,
                   setVars, trackVars, channels, fault>>

\* sf_seek(pFile, nNewPos, SEEK_SET): a position past the end is refused
SfSeek(pos, target) == IF target >= 0 /\ target <= sf_frames THEN target ELSE pos

\* lines 342-348
ThreadSeekDone ==
    /\ ThreadAt("seek")
    /\ filePos' = SfSeek(filePos, nNewPos)
    /\ file_read_status' = LOADING
    /\ nNewPos' = 0
    /\ nUnusedFrames' = 0
    /\ seekReq' = NoSeek
    /\ tpc' = "load"
    /\ UNCHANGED <<regVars, file_open, play_state, loop, play_pos_frames, frames,
                   filename, cb_fn, ringbuffer_a, ringbuffer_b, rings,
                   tst, nFramesRead, frame,
                   ctlVars, bpc, jackVars, divTraps, dmxVars, patVars, ntfVars, midiVars, rateVars, srcOne,
                   setVars, trackVars, channels, fault>>

\* nMaxFrames = buffer_size / channels (lines 347, 355)
nMaxFrames == buffer_size \div channels

\* line 366: with a converter the block asked for is shorter by the frames
\* the converter left unused
MaxFramesNow == IF srcOne THEN nMaxFrames ELSE nMaxFrames - nUnusedFrames

\* sf_readf_float(pFile, ..., nMaxFrames)
SfRead(pos) == Min(MaxFramesNow, sf_frames - pos)

\* lines 358-364
ThreadRead ==
    /\ ThreadAt("load")
    /\ IF file_read_status = LOADING
       THEN /\ nFramesRead' = SfRead(filePos)
            /\ filePos' = filePos + SfRead(filePos)
            /\ tpc' = "status"
       ELSE /\ tpc' = "loop"
            /\ UNCHANGED <<nFramesRead, filePos>>
    /\ UNCHANGED <<regVars, fieldVars, tst, nNewPos, frame,
                   ctlVars, bpc, jackVars, seekReq, divTraps, dmxVars, patVars, ntfVars, midiVars, rateVars, srcVars, setVars, trackVars, channels, fault>>

\* lines 370-385: a short read ends the file
StatusAfterRead(n, lp, st) ==
    IF n = MaxFramesNow THEN st ELSE IF lp # 0 THEN LOOPING ELSE IDLE

\* lines 386-401: src_process() is the library's: it generates up to
\* output_frames frames and uses up to the frames it was given
SrcGenerated == 0..nMaxFrames
SrcUsed(n) == 0..n

\* lines 370-401: the status, then the conversion when the ratio is not 1
ThreadStatus ==
    /\ ThreadAt("status")
    /\ file_read_status' = StatusAfterRead(nFramesRead, loop, file_read_status)
    /\ IF srcOne
       THEN UNCHANGED <<nFramesRead, nUnusedFrames>>
       ELSE /\ nFramesRead' \in SrcGenerated
            /\ \E used \in SrcUsed(nFramesRead) :
                  nUnusedFrames' = MaxFramesNow - used
    /\ tpc' = "wait"
    /\ UNCHANGED <<regVars, file_open, play_state, loop, play_pos_frames, frames,
                   filename, cb_fn, ringbuffer_a, ringbuffer_b, rings,
                   tst, filePos, nNewPos, frame,
                   ctlVars, bpc, jackVars, seekReq, divTraps, dmxVars, patVars, ntfVars, midiVars, rateVars,
                   srcOne, setVars, trackVars, channels, fault>>

\* lines 404-405: the thread sleeps while both rings lack room for the block
MustWait == /\ WriteSpace(ringbuffer_a) < nFramesRead
            /\ WriteSpace(ringbuffer_b) < nFramesRead

\* A wait for ring space that does not look at file_open.
WaitIgnoresClose == FALSE

\* lines 408-409: the wait is left when the file has been closed
WaitCancelled == file_open = 0

\* lines 404-412: leave the wait, then demux only if still open and loading
ThreadWait ==
    /\ ThreadAt("wait")
    /\ ~MustWait \/ WaitCancelled
    /\ frame' = 0
    /\ IF file_open = 2 /\ file_read_status = LOADING
       THEN tpc' = "demux" /\ UNCHANGED nFramesRead
       ELSE tpc' = "loop" /\ nFramesRead' = 0
    /\ UNCHANGED <<regVars, fieldVars, tst, filePos, nNewPos,
                   ctlVars, bpc, jackVars, seekReq, divTraps, dmxVars, patVars, ntfVars, midiVars, rateVars, srcVars, setVars, trackVars, channels, fault>>

\* jack_ringbuffer_write of one float: appended when there is room
RingWrite(rb, x, n) == IF n > 0 /\ WriteSpace(rb) > 0 THEN Append(rb, x) ELSE rb
Wrote(rb, n) == IF n > 0 /\ WriteSpace(rb) > 0 THEN 1 ELSE 0

\* lines 413-444: one frame of the block goes to B, then as many bytes as
\* B took go to A.  The source frame number stands for the sample when the
\* block was not converted.
ThreadDemux ==
    /\ ThreadAt("demux")
    /\ IF frame < nFramesRead
       THEN LET x == IF srcOne THEN filePos - nFramesRead + frame ELSE Resampled
                nWrote == Wrote(ringbuffer_b, 1)
            IN  /\ ringbuffer_b' = RingWrite(ringbuffer_b, x, 1)
                /\ ringbuffer_a' = RingWrite(ringbuffer_a, x, nWrote)
                /\ frame' = frame + 1
                /\ UNCHANGED <<tpc, nFramesRead>>
       ELSE /\ tpc' = "loop"
            /\ frame' = 0
            /\ nFramesRead' = 0
            /\ UNCHANGED <<ringbuffer_a, ringbuffer_b>>
    /\ UNCHANGED <<regVars, file_open, file_read_status, play_state, loop,
                   play_pos_frames, frames, filename, cb_fn, rings,
                   tst, filePos, nNewPos,
                   ctlVars, bpc, jackVars, seekReq, divTraps, dmxVars, patVars, ntfVars, midiVars, rateVars, srcVars, setVars, trackVars, channels, fault>>

\* A thread that leaves without releasing the ring buffers.
RingsKeptAtExit(r) == r

\* lines 460-463: the ring buffers are freed when the pointers are not NULL
RingsAfterExit(r) == IF r = "alloc" THEN "freed" ELSE r

\* lines 450-474: the thread leaves; the file is closed, the ring buffers
\* are freed and the pointers left as they are.
ThreadExit ==
    /\ ThreadAt("exit")
    /\ play_state' = STOPPED
    /\ filename' = EmptyName
    /\ filePos' = 0
    /\ play_pos_frames' = 0
    /\ cb_fn' = FALSE
    /\ rings' = RingsAfterExit(rings)
    /\ ringbuffer_a' = <<>>
    /\ ringbuffer_b' = <<>>
    /\ tst' = "exited"
    /\ tpc' = "none"
    /\ UNCHANGED <<regVars, file_open, file_read_status, loop, frames,
                   nNewPos, nFramesRead, frame, ctlVars, bpc, jackVars, seekReq, divTraps, dmxVars, patVars, ntfVars, midiVars, rateVars, srcVars, setVars, trackVars, channels, fault>>

ThreadStep ==
    \/ ThreadOpen
    \/ ThreadInit
    \/ ThreadSetOpen
    \/ ThreadLoop
    \/ ThreadSeekDone
    \/ ThreadRead
    \/ ThreadStatus
    \/ ThreadWait
    \/ ThreadDemux
    \/ ThreadExit


(* ====================== JACK process callback ========================== *)
\* on_jack_process(): lines 679-777.

JackAt(l) == ~fault /\ jpc = l

\* A start that does not wait for the seek.
StartedWhileSeeking(ps, st) == IF ps = STARTING THEN PLAYING ELSE ps

\* line 689
StartedState(ps, st) == IF ps = STARTING /\ st # SEEKING THEN PLAYING ELSE ps

\* line 690: the rings are read while playing or stopping
ReadsRings(ps) == ps = PLAYING \/ ps = STOPPING

\* lines 683-690: the callback does nothing unless the file is open
JackEnter ==
    /\ JackAt("idle")
    /\ file_open = 2
    /\ play_state' = StartedState(play_state, file_read_status)
    /\ jpc' = IF ReadsRings(play_state') THEN "readA" ELSE "pos"
    /\ count' = 0
    /\ loopAtEntry' = loop
    /\ UNCHANGED <<regVars, file_open, file_read_status, loop, play_pos_frames,
                   frames, filename, cb_fn, ringbuffer_a, ringbuffer_b, rings,
                   threadVars, ctlVars, bpc, seekReq, divTraps, dmxVars, patVars, ntfVars, midiVars, rateVars, srcVars, setVars, trackVars, channels, fault>>

\* Reading through a ring pointer that is NULL faults.  One that was freed
\* still points at the released buffer: reading through it is undefined, it
\* faults or finds whatever the memory holds, any number of frames.
RingReadCounts(rb, n) ==
    IF rings = "alloc" THEN {Min(n, Len(rb))}
    ELSE IF rings = "freed" THEN 0..n ELSE {}
RingMayFault == rings # "alloc"

\* line 693: count = jack_ringbuffer_read(ringbuffer_a, pOutA, nFrames)
JackReadA ==
    /\ JackAt("readA")
    /\ \/ /\ count' \in RingReadCounts(ringbuffer_a, NFrames)
          /\ ringbuffer_a' = Drop(ringbuffer_a, Min(count', Len(ringbuffer_a)))
          /\ jpc' = "readB"
          /\ UNCHANGED fault
       \/ /\ RingMayFault
          /\ fault' = TRUE
          /\ UNCHANGED <<count, ringbuffer_a, jpc>>
    /\ UNCHANGED <<regVars, file_open, file_read_status, play_state, loop,
                   play_pos_frames, frames, filename, cb_fn, ringbuffer_b, rings,
                   threadVars, ctlVars, bpc, loopAtEntry, seekReq, divTraps, dmxVars, patVars, ntfVars, midiVars, rateVars, srcVars, setVars, trackVars, channels>>

\* An end of file that does not look at the status: any empty ring A.
EndOfFileAnyStatus(st, space) == space = 0

\* line 695: jack_ringbuffer_read_space(ringbuffer_a) == 0 and IDLE
EndOfFile(st, space) == st = IDLE /\ space = 0

\* lines 703-705: the position advances by count and wraps at frames.  With
\* frames == 0 the wrap divides by zero, which is undefined: where the
\* division traps the process is killed, elsewhere the remainder is the
\* dividend.
DividesByZero(p) == UGe(p, frames) /\ frames = 0
Advanced(p) == IF UGe(p, frames) /\ frames # 0 THEN UMod(p, frames) ELSE p

\* A stop that waits for the end of the file.
StopsOnlyAtEof(ps, e) == (ps = STOPPING \/ ps = PLAYING) /\ e

\* line 707
MustStop(ps, e) == ps = STOPPING \/ (ps = PLAYING /\ e)

\* lines 703-718, then the callback returns: e is the eof of line 695
JackFinish(e) ==
    LET p == UAdd(play_pos_frames, count)
    IN  \/ /\ DividesByZero(p)
           /\ divTraps
           /\ fault' = TRUE
           /\ UNCHANGED <<play_pos_frames, play_state, file_read_status,
                          jpc, count, loopAtEntry>>
        \/ /\ ~(DividesByZero(p) /\ divTraps)
           /\ UNCHANGED fault
           /\ play_state' = IF MustStop(play_state, e) THEN STOPPED ELSE play_state
           /\ play_pos_frames' = IF MustStop(play_state, e) /\ e THEN 0 ELSE Advanced(p)
           /\ file_read_status' = IF MustStop(play_state, e) /\ e THEN SEEKING
                                  ELSE file_read_status
           /\ jpc' = IF midiBuf.done THEN "idle" ELSE "midi"
           /\ count' = 0
           /\ loopAtEntry' = 0

\* lines 694-718: the same count is read from B, eof is evaluated, the
\* position advances and playback stops if it must
JackReadB ==
    /\ JackAt("readB")
    /\ \/ /\ rings # "null"
          /\ ringbuffer_b' = Drop(ringbuffer_b, Min(count, Len(ringbuffer_b)))
          /\ \E space \in RingReadCounts(ringbuffer_a, RingCapacity) :
                JackFinish(EndOfFile(file_read_status, space))
       \/ /\ RingMayFault
          /\ fault' = TRUE
          /\ UNCHANGED <<ringbuffer_b, play_pos_frames, play_state, file_read_status,
                         jpc, count, loopAtEntry>>
    /\ UNCHANGED <<regVars, file_open, loop, frames, filename, cb_fn,
                   ringbuffer_a, rings, threadVars, ctlVars, bpc, seekReq, divTraps, dmxVars, patVars, ntfVars, midiVars, rateVars, srcVars, setVars, trackVars, channels>>

\* lines 703-718 of a period in which the rings are not read
JackPos ==
    /\ JackAt("pos")
    /\ JackFinish(FALSE)
    /\ UNCHANGED <<regVars, file_open, loop, frames, filename, cb_fn,
                   ringbuffer_a, ringbuffer_b, rings, threadVars, ctlVars, bpc, seekReq, divTraps, dmxVars, patVars, ntfVars, midiVars, rateVars, srcVars, setVars, trackVars, channels>>

JackStep ==
    \/ JackEnter
    \/ JackReadA
    \/ JackReadB
    \/ JackPos

(* ------------------------------- MIDI ---------------------------------- *)
\* lines 728-776: the events of the period, after the audio

\* jackd fills the port buffer for the next period.  An event that finds the
\* instance not open is dropped by that period (lines 683-684) and is not
\* followed further.
MidiArrives(ev) ==
    /\ JackAt("idle")
    /\ file_open = 2
    /\ midiBuf.done
    /\ midiBuf' = ev
    /\ UNCHANGED <<regVars, fieldVars, threadVars, ctlVars, bpc, jackVars,
                   seekReq, divTraps, dmxVars, patVars, ntfVars, pitch_shift, last_note_played, rateVars,
                   srcVars, setVars, trackVars, channels, fault>>

\* lines 683-684: a period of an instance that is not open returns before
\* it looks at the port
JackSkipMidi ==
    /\ JackAt("idle")
    /\ file_open # 2
    /\ ~midiBuf.done
    /\ midiBuf' = NoEvent
    /\ UNCHANGED <<regVars, fieldVars, threadVars, ctlVars, bpc, jackVars,
                   seekReq, divTraps, dmxVars, patVars, ntfVars, pitch_shift, last_note_played, rateVars,
                   srcVars, setVars, trackVars, channels, fault>>

\* line 735: cmd == 0x80 || cmd == 0x90 && buffer[2] == 0
IsNoteOff(cmd, vel) == cmd = NOTE_OFF \/ (cmd = NOTE_ON /\ vel = 0)

\* line 743
PitchShiftFor(note) == MIDDLE_C - note

\* lines 736-739: stop_playback, the shift and the note are cleared
MidiNoteOff ==
    /\ play_state' = StopPlaybackState(play_state)
    /\ pitch_shift' = 0
    /\ last_note_played' = 0
    /\ UNCHANGED <<play_pos_frames, file_read_status, ringbuffer_a, ringbuffer_b>>

\* lines 742-746: stop_playback, the shift, set_position(0), start_playback
\* and the note
MidiNoteOn(note) ==
    /\ play_state' = StartPlaybackState(file_open, StopPlaybackState(play_state))
    /\ pitch_shift' = PitchShiftFor(note)
    /\ IF file_open = 2
       THEN SetPositionStores(0) /\ ringbuffer_a' = <<>>
       ELSE UNCHANGED <<play_pos_frames, file_read_status, ringbuffer_a, ringbuffer_b>>
    /\ last_note_played' = note

\* lines 732-751: the event of the period, then the callback returns
JackMidi ==
    /\ JackAt("midi")
    /\ IF IsNoteOff(midiBuf.cmd, midiBuf.vel) /\ last_note_played = midiBuf.note
       THEN MidiNoteOff
       ELSE IF midiBuf.cmd = NOTE_ON
       THEN MidiNoteOn(midiBuf.note)
       ELSE UNCHANGED <<play_state, pitch_shift, last_note_played, play_pos_frames,
                        file_read_status, ringbuffer_a, ringbuffer_b>>
    /\ midiBuf' = NoEvent
    /\ jpc' = "idle"
    /\ UNCHANGED <<regVars, file_open, loop, frames, filename, cb_fn, rings,
                   threadVars, ctlVars, bpc, count, loopAtEntry,
                   seekReq, divTraps, dmxVars, patVars, ntfVars, rateVars, srcVars, setVars, trackVars,
                   channels, fault>>

\* the notes played and the events that arrive
MidiNotes == {MIDDLE_C - 1}
MidiEvents ==
    {[cmd |-> NOTE_ON, note |-> n, vel |-> v, done |-> FALSE] :
        n \in MidiNotes, v \in {0, 100}}
      \cup {[cmd |-> NOTE_OFF, note |-> n, vel |-> 0, done |-> FALSE] : n \in MidiNotes}
      \cup {[cmd |-> PITCH_BEND, note |-> 0, vel |-> 64, done |-> FALSE]}

\* events of the note that leaves the pitch alone
UnshiftedEvents ==
    {[cmd |-> NOTE_ON, note |-> MIDDLE_C, vel |-> v, done |-> FALSE] : v \in {0, 100}}
      \cup {[cmd |-> NOTE_OFF, note |-> MIDDLE_C, vel |-> 0, done |-> FALSE]}

MidiStep(E) ==
    \/ \E ev \in E : MidiArrives(ev)
    \/ JackSkipMidi
    \/ JackMidi

(* ======================== the player, one caller ======================= *)
\* the times set_position is called with
SeekTimes == 0..MaxSeek

ControlStep ==
    \/ CallLoad
    \/ \E f \in Files, created \in BOOLEAN : LoadSpawn(f, created)
    \/ LoadPoll
    \/ LoadCb
    \/ LoadRet
    \/ CallUnload
    \/ UnloadJoin
    \/ UnloadJoinInvalid
    \/ start_playback
    \/ stop_playback
    \/ \E b \in {0, 1} : enable_loop(b)
    \/ \E t \in SeekTimes : set_position(t)

Next == ControlStep \/ ThreadStep \/ JackStep

Spec == Init /\ [][Next]_vars


(* ------------------------------ scheduling ----------------------------- *)
\* The reader thread is a pthread the kernel keeps scheduling, and a
\* pthread_join whose thread has exited returns.  Nothing is assumed of the
\* JACK callback: the server may have stopped calling it.
FairSpec == Spec /\ WF_vars(ThreadStep) /\ WF_vars(UnloadJoin)

(* ============== the caller stops issuing calls (quiescence) ============ *)
NextQuiet == ControlStep \/ Quiesce \/ ThreadStep \/ JackStep

\* A running JACK server calls the process callback every period, and the
\* kernel keeps scheduling the reader thread.
LiveSpec == Init /\ [][NextQuiet]_vars /\ WF_vars(ThreadStep) /\ WF_vars(JackStep)

(* ================ a second control context calling unload ============== *)
\* unload() issued by another context (the OSC thread) while load() is
\* still polling at line 499.  Lines 518-521:
OtherAt(l) == ~fault /\ bpc = l

OtherUnload ==
    /\ OtherAt("idle")
    /\ cpc = "load_poll"
    /\ file_open = 1
    /\ play_state' = StopPlaybackState(play_state)
    /\ file_open' = 0
    /\ bpc' = "join"
    /\ UNCHANGED <<regVars, file_read_status, loop, play_pos_frames,
                   frames, filename, cb_fn, ringbuffer_a, ringbuffer_b, rings,
                   threadVars, ctlVars, jackVars, seekReq, divTraps, dmxVars, patVars, ntfVars, midiVars, rateVars, srcVars, setVars, trackVars, channels, fault>>

\* lines 523-524
OtherUnloadJoin ==
    /\ OtherAt("join")
    /\ JoinReturns(tst)
    /\ tst' = "none"
    /\ filename' = EmptyName
    /\ bpc' = "idle"
    /\ UNCHANGED <<regVars, file_open, file_read_status, play_state, loop,
                   play_pos_frames, frames, cb_fn, ringbuffer_a, ringbuffer_b, rings,
                   tpc, filePos, nNewPos, nFramesRead, frame,
                   ctlVars, jackVars, seekReq, divTraps, dmxVars, patVars, ntfVars, midiVars, rateVars, srcVars, setVars, trackVars, channels, fault>>

OtherStep ==
    \/ OtherUnload
    \/ OtherUnloadJoin

NextCancel == ControlStep \/ OtherStep \/ ThreadStep \/ JackStep

SpecCancel == Init /\ [][NextCancel]_vars


(* ============ set_position against the thread and the callback ========= *)
\* One file of MaxFileFrames frames is loaded, played and sought in, with
\* set_position taken statement by statement and called with every time
\* from before the start of the file to its end.
SeekFile == [opens |-> TRUE, frames |-> MaxFileFrames, channels |-> 1, samplerate |-> 1]
AllSeekTimes == (0 - 1)..MaxFileFrames

SeekControlStep ==
    \/ CallLoad
    \/ LoadSpawn(SeekFile, TRUE)
    \/ LoadPoll
    \/ LoadCb
    \/ LoadRet
    \/ UnloadJoin
    \/ start_playback
    \/ \E t \in AllSeekTimes : SetPositionResetB(t)
    \/ SetPositionResetA

NextSeek == SeekControlStep \/ ThreadStep \/ JackStep

SpecSeek == Init /\ [][NextSeek]_vars


(* ================================ setters ============================== *)
\* the bookkeeping of a setter that has returned
SetterReturns(op, arg) ==
    /\ setOp' = op
    /\ setArg' = arg
    /\ lastop' = "none"

\* line 916: gain < 0 || gain > 2
GainRejected(g) == FLess(g, 0) \/ FGreater(g, 2 * FOne)

\* set_gain(), lines 912-919
set_gain(g) ==
    /\ CallerFree
    /\ lastop' = "none"
    /\ gain' = IF file_open = 2 /\ ~GainRejected(g) THEN g ELSE gain
    /\ UNCHANGED <<regVars, fieldVars, src_quality, buffer_size, buffer_count,
                   setOp, setArg, threadVars, cpc, cret, quiet, bpc, jackVars,
                   seekReq, divTraps, dmxVars, patVars, ntfVars, midiVars, rateVars, srcVars, trackVars, channels, fault>>

\* lines 760-762, a build with ENABLE_MIDI: controller 7 with value v sets
\* the gain to v / 100.0 in a callback, which runs only on an open file
\* (line 683)
cc_gain(v) ==
    /\ JackAt("idle")
    /\ file_open = 2
    /\ gain' = v
    /\ UNCHANGED <<regVars, fieldVars, src_quality, buffer_size, buffer_count,
                   setOp, setArg, threadVars, ctlVars, bpc, jackVars,
                   seekReq, divTraps, dmxVars, patVars, ntfVars, midiVars, rateVars, srcVars, trackVars, channels, fault>>

\* line 898: quality > SRC_LINEAR
QualityRejected(q) == q > SRC_LINEAR

\* set_src_quality(), lines 894-903
set_src_quality(q) ==
    /\ CallerFree
    /\ SetterReturns("set_src_quality", q)
    /\ src_quality' = IF file_open = 2 /\ ~QualityRejected(q) THEN q ELSE src_quality
    /\ UNCHANGED <<regVars, fieldVars, gain, buffer_size, buffer_count,
                   threadVars, cpc, cret, quiet, bpc, jackVars,
                   seekReq, divTraps, dmxVars, patVars, ntfVars, midiVars, rateVars, srcVars, trackVars, channels, fault>>

\* Buffer setters that do not look at file_open.
BufferAlwaysSettable(fo) == TRUE

\* lines 973 and 986: the buffer setters act on a closed instance only
BufferSettable(fo) == fo = 0

\* set_buffer_size(), lines 971-975
set_buffer_size(size) ==
    /\ CallerFree
    /\ SetterReturns("set_buffer_size", size)
    /\ buffer_size' = IF BufferSettable(file_open) THEN size ELSE buffer_size
    /\ UNCHANGED <<regVars, fieldVars, gain, src_quality, buffer_count,
                   threadVars, cpc, cret, quiet, bpc, jackVars,
                   seekReq, divTraps, dmxVars, patVars, ntfVars, midiVars, rateVars, srcVars, trackVars, channels, fault>>

\* set_buffer_count(), lines 984-988
set_buffer_count(n) ==
    /\ CallerFree
    /\ SetterReturns("set_buffer_count", n)
    /\ buffer_count' = IF BufferSettable(file_open) /\ n > 1 THEN n ELSE buffer_count
    /\ UNCHANGED <<regVars, fieldVars, gain, src_quality, buffer_size,
                   threadVars, cpc, cret, quiet, bpc, jackVars,
                   seekReq, divTraps, dmxVars, patVars, ntfVars, midiVars, rateVars, srcVars, trackVars, channels, fault>>

\* A track setter that stores whatever it is given.
TrackAlwaysStored(i, c, old) == i

\* lines 933-938: the selector is stored when it is below the channel
\* count, as 0 for a mono file; otherwise the field is left alone
TrackStored(i, c, old) == IF i < c THEN (IF c = 1 THEN 0 ELSE i) ELSE old

\* get_position() as set_position reads it back (lines 939, 570-575): the
\* play position, which set_position clamps when it lies past the end
TrackSeekTime == IF play_pos_frames < 0 THEN sf_frames ELSE play_pos_frames

\* set_track_a(), lines 929-941: the selector, then a set_position to the
\* current position
set_track_a(i) ==
    /\ CallerFree
    /\ SetterReturns("set_track_a", i)
    /\ IF file_open # 2
       THEN UNCHANGED <<track_a, play_pos_frames, file_read_status,
                        ringbuffer_a, ringbuffer_b>>
       ELSE /\ track_a' = TrackStored(i, channels, track_a)
            /\ SetPositionStores(TrackSeekTime)
            /\ ringbuffer_a' = <<>>
    /\ UNCHANGED <<regVars, file_open, play_state, loop, frames, filename, cb_fn,
                   rings, gain, src_quality, buffer_size, buffer_count, track_b,
                   threadVars, cpc, cret, quiet, bpc, jackVars,
                   seekReq, divTraps, dmxVars, patVars, ntfVars, midiVars, rateVars, srcVars, channels, fault>>

\* set_track_b(), lines 943-955
set_track_b(i) ==
    /\ CallerFree
    /\ SetterReturns("set_track_b", i)
    /\ IF file_open # 2
       THEN UNCHANGED <<track_b, play_pos_frames, file_read_status,
                        ringbuffer_a, ringbuffer_b>>
       ELSE /\ track_b' = TrackStored(i, channels, track_b)
            /\ SetPositionStores(TrackSeekTime)
            /\ ringbuffer_a' = <<>>
    /\ UNCHANGED <<regVars, file_open, play_state, loop, frames, filename, cb_fn,
                   rings, gain, src_quality, buffer_size, buffer_count, track_a,
                   threadVars, cpc, cret, quiet, bpc, jackVars,
                   seekReq, divTraps, dmxVars, patVars, ntfVars, midiVars, rateVars, srcVars, channels, fault>>

\* lines 416-432: the channel of a frame the demux reads for a selector
DemuxIndex(tr) == IF channels > 1 /\ tr >= 0 THEN tr ELSE 0

\* the arguments the setters are called with
GainInputs == {FNaN, 0 - FOne, 0, 2 * FOne, 2 * FOne + 1}
CcValues == {127}
QualityInputs == {0, SRC_LINEAR, SRC_LINEAR + 1}
SizeInputs == 1..BufferSize
CountInputs == 1..(BufferCount + 1)
TrackInputs == (0 - 1)..MaxChannels

\* the files loaded: mono and stereo ones, and one that does not open
TrackFiles ==
    {[opens |-> TRUE, frames |-> MaxFileFrames, channels |-> c, samplerate |-> 1] :
        c \in 1..MaxChannels}
        \cup {EmptyName}

GainStep ==
    \/ \E g \in GainInputs : set_gain(g)
    \/ \E v \in CcValues : cc_gain(v)

SetterStep ==
    \/ \E q \in QualityInputs : set_src_quality(q)
    \/ \E n \in SizeInputs : set_buffer_size(n)
    \/ \E n \in CountInputs : set_buffer_count(n)

TrackStep ==
    \/ \E i \in TrackInputs : set_track_a(i)
    \/ \E i \in TrackInputs : set_track_b(i)

\* load and unload of the files in F, every thread created
LoadUnloadStep(F) ==
    \/ CallLoad
    \/ \E f \in F : LoadSpawn(f, TRUE)
    \/ LoadPoll
    \/ LoadCb
    \/ LoadRet
    \/ CallUnload
    \/ UnloadJoin

\* set_gain and the gain controller around load and unload
NextGain == LoadUnloadStep(TrackFiles) \/ GainStep \/ ThreadStep

SpecGain == Init /\ [][NextGain]_vars

\* the quality and buffer setters around load and unload
NextSetters == LoadUnloadStep(TrackFiles) \/ SetterStep \/ ThreadStep

SpecSetters == Init /\ [][NextSetters]_vars

\* the track setters around load and unload
NextTracks == LoadUnloadStep(TrackFiles) \/ TrackStep \/ ThreadStep

SpecTracks == Init /\ [][NextTracks]_vars

\* load without a call of unload
LoadStep(F) ==
    \/ CallLoad
    \/ \E f \in F : LoadSpawn(f, TRUE)
    \/ LoadPoll
    \/ LoadCb
    \/ LoadRet
    \/ UnloadJoin

\* MIDI events in the periods of the callback, around load and start
NextMidi ==
    \/ LoadStep(GoodFiles)
    \/ start_playback
    \/ ThreadStep
    \/ JackStep
    \/ MidiStep(MidiEvents)

SpecMidi == Init /\ [][NextMidi]_vars

\* the transport under control calls, MIDI events and callbacks
NextTransport ==
    \/ LoadUnloadStep({SeekFile})
    \/ start_playback
    \/ stop_playback
    \/ ThreadStep
    \/ JackStep
    \/ MidiStep(UnshiftedEvents)

SpecTransport == Init /\ [][NextTransport]_vars

(* ------------------------------ notifications -------------------------- *)
\* send_notifications(), lines 195-270.  The kinds are the NOTIFY_ constants
\* of player.h, written by name.  A float is in hundredths, a position in
\* hundredths of a second.

\* the frames the host plays in a second at the rate g_samplerate = 1
FramesPerSecond == 20

NOTIFY_ALL == "ALL"
NotifyKinds == <<"TRANSPORT", "POSITION", "GAIN", "LOOP", "TRACK_A", "TRACK_B",
                 "QUALITY", "DEBUG">>
KindSet == {NotifyKinds[i] : i \in 1..Len(NotifyKinds)}

FAbs(x) == IF x < 0 THEN 0 - x ELSE x

\* get_position(), lines 570-575: src_ratio_inv * play_pos_frames /
\* sf_info.samplerate.  src_ratio_inv is 1 / src_ratio (line 315) as long as
\* the seeks find pitch_shift 0 (line 340).
get_position(pos) ==
    IF file_open = 2 /\ sf_samplerate # 0 /\ src_ratio > 0
    THEN (((FOne * FOne) \div src_ratio) * pos) \div (sf_samplerate * FramesPerSecond)
    ELSE 0

\* what a pass compares, and what it passes to cb_fn: the fields as floats,
\* with ps the transport state and pos the play position at the pass
CurrentValues(ps, pos) ==
    [k \in KindSet |->
        CASE k = "TRANSPORT" -> ps
          [] k = "POSITION" -> get_position(pos)
          [] k = "GAIN" -> gain
          [] k = "LOOP" -> loop
          [] k = "TRACK_A" -> track_a
          [] k = "TRACK_B" -> track_b
          [] k = "QUALITY" -> src_quality
          [] k = "DEBUG" -> g_debug]

\* the values at the last notification
Shadows ==
    [k \in KindSet |->
        CASE k = "TRANSPORT" -> last_play_state
          [] k = "POSITION" -> last_position
          [] k = "GAIN" -> last_gain
          [] k = "LOOP" -> last_loop
          [] k = "TRACK_A" -> last_track_a
          [] k = "TRACK_B" -> last_track_b
          [] k = "QUALITY" -> last_src_quality
          [] k = "DEBUG" -> g_last_debug]

\* A pass that notifies every difference, however small.
DiffersAtAll(kind, cur, last) == cur # last

\* the tests of lines 202, 212, 222, 228, 234, 244, 254 and 262: 0.1 s for
\* the position, 0.01 for the gain, any change for the others
Differs(kind, cur, last) ==
    IF kind = "POSITION" THEN FAbs(cur - last) >= FOne \div 10
    ELSE IF kind = "GAIN" THEN FAbs(cur - last) >= FOne \div 100
    ELSE cur # last

\* param == NOTIFY_ALL || param == NOTIFY_<kind>
Covers(param, kind) == param = NOTIFY_ALL \/ param = kind

\* the kinds a pass notifies
Notified(param, cur, sh) ==
    {k \in KindSet : Covers(param, k) /\ Differs(k, cur[k], sh[k])}

\* line 198: a pass on an instance that is not open returns at once; the
\* shadow of a notified kind takes the current value
ShadowsAfter(param, cur, sh) ==
    IF file_open # 2 THEN sh
    ELSE [k \in KindSet |-> IF k \in Notified(param, cur, sh) THEN cur[k] ELSE sh[k]]

\* the calls of cb_fn the pass makes, in the order of the code: one per
\* notified kind, with the value the shadow was given, if cb_fn is set
CallsOf(param, cur, sh) ==
    LET hit(k) == k \in Notified(param, cur, sh)
        kinds == SelectSeq(NotifyKinds, hit)
    IN  IF file_open = 2 /\ cb_fn
        THEN [i \in 1..Len(kinds) |-> <<kinds[i], cur[kinds[i]]>>]
        ELSE <<>>

\* the shadows after the passes of a step and the calls they made, by the
\* context ctx
Notifies(ctx, param, sh, calls) ==
    /\ last_play_state' = sh["TRANSPORT"]
    /\ last_position' = sh["POSITION"]
    /\ last_gain' = sh["GAIN"]
    /\ last_loop' = sh["LOOP"]
    /\ last_track_a' = sh["TRACK_A"]
    /\ last_track_b' = sh["TRACK_B"]
    /\ last_src_quality' = sh["QUALITY"]
    /\ g_last_debug' = sh["DEBUG"]
    /\ cbCalls' = calls
    /\ cbCtx' = ctx
    /\ ntfParam' = param
    /\ UNCHANGED g_debug

\* send_notifications(pPlayer, param) once the fields hold ps and pos
send_notifications(ctx, param, ps, pos) ==
    Notifies(ctx, param,
             ShadowsAfter(param, CurrentValues(ps, pos), Shadows),
             CallsOf(param, CurrentValues(ps, pos), Shadows))

\* lines 406 and 447-448: the thread ends each turn of its loop, and each
\* turn of its wait for ring space, with a sleep and a pass over all kinds
ThreadNotifies ==
    /\ ThreadAt("loop") \/ (ThreadAt("wait") /\ MustWait)
    /\ send_notifications("thread", NOTIFY_ALL, play_state, play_pos_frames)
    /\ UNCHANGED <<playerVars, dmxVars, patVars>>

\* start_playback(), lines 596-602, with its pass
StartPlaybackNotifies ==
    /\ CallerFree
    /\ play_state' = StartPlaybackState(file_open, play_state)
    /\ lastop' = "none"
    /\ send_notifications("control", "TRANSPORT", play_state', play_pos_frames)
    /\ UNCHANGED <<regVars, file_open, file_read_status, loop, play_pos_frames,
                   frames, filename, cb_fn, ringbuffer_a, ringbuffer_b, rings,
                   threadVars, cpc, cret, quiet, bpc, jackVars, seekReq, divTraps, dmxVars, patVars, midiVars, rateVars, srcVars, setVars, trackVars, channels, fault>>

\* stop_playback(), lines 604-609, with its pass
StopPlaybackNotifies ==
    /\ CallerFree
    /\ play_state' = StopPlaybackState(play_state)
    /\ lastop' = "none"
    /\ send_notifications("control", "TRANSPORT", play_state', play_pos_frames)
    /\ UNCHANGED <<regVars, file_open, file_read_status, loop, play_pos_frames,
                   frames, filename, cb_fn, ringbuffer_a, ringbuffer_b, rings,
                   threadVars, cpc, cret, quiet, bpc, jackVars, seekReq, divTraps, dmxVars, patVars, midiVars, rateVars, srcVars, setVars, trackVars, channels, fault>>

\* lines 732-751 with the passes of the calls made: a note-off calls
\* stop_playback, a note-on stop_playback and then start_playback, each
\* with its pass, in the callback
JackMidiNotifies ==
    /\ JackAt("midi")
    /\ IF IsNoteOff(midiBuf.cmd, midiBuf.vel) /\ last_note_played = midiBuf.note
       THEN /\ MidiNoteOff
            /\ send_notifications("jack", "TRANSPORT", play_state', play_pos_frames)
       ELSE IF midiBuf.cmd = NOTE_ON
       THEN /\ MidiNoteOn(midiBuf.note)
            /\ LET stopped == CurrentValues(StopPlaybackState(play_state), play_pos_frames)
                   started == CurrentValues(play_state', play_pos_frames')
                   sh == ShadowsAfter("TRANSPORT", stopped, Shadows)
               IN  Notifies("jack", "TRANSPORT",
                            ShadowsAfter("TRANSPORT", started, sh),
                            CallsOf("TRANSPORT", stopped, Shadows)
                                \o CallsOf("TRANSPORT", started, sh))
       ELSE UNCHANGED <<play_state, pitch_shift, last_note_played, play_pos_frames,
                        file_read_status, ringbuffer_a, ringbuffer_b, ntfVars>>
    /\ midiBuf' = NoEvent
    /\ jpc' = "idle"
    /\ UNCHANGED <<regVars, file_open, loop, frames, filename, cb_fn, rings,
                   threadVars, ctlVars, bpc, count, loopAtEntry,
                   seekReq, divTraps, dmxVars, patVars, rateVars, srcVars, setVars, trackVars,
                   channels, fault>>

\* malloc leaves the shadows that init() does not write as they were
ShadowGains == {0, FOne}
ShadowLoops == {0, 1}
ShadowQualities == {0, SRC_SINC_FASTEST}

\* Only load is called, of a file with frames: no division by zero is
\* reached and the build is left out of the choice.
InitNotify ==
    /\ InitPlayer
    /\ ~divTraps
    /\ NoFrame
    /\ NoPattern
    /\ last_play_state = 0 - 1
    /\ last_position = 0 - FOne
    /\ last_gain \in ShadowGains
    /\ last_loop \in ShadowLoops
    /\ last_track_a = 0
    /\ last_track_b = 0
    /\ last_src_quality \in ShadowQualities
    /\ g_debug = 0
    /\ g_last_debug = 0
    /\ cbCalls = <<>>
    /\ cbCtx = "none"
    /\ ntfParam = "none"

\* a file of n frames at the host's rate
NotifyFile(n) == [opens |-> TRUE, frames |-> n, channels |-> 1, samplerate |-> 1]

\* the passes of the thread and of the transport calls around load and
\* playback
NextNotify ==
    \/ LoadStep({NotifyFile(2)})
    \/ ThreadStep
    \/ ThreadNotifies
    \/ StartPlaybackNotifies
    \/ StopPlaybackNotifies
    \/ JackStep

SpecNotify == InitNotify /\ [][NextNotify]_vars

\* a note-on and a note-off of the note that plays unshifted
NotifyEvents == {ev \in UnshiftedEvents : ev.vel = 100 \/ ev.cmd = NOTE_OFF}

\* the passes of the thread and of the callback's events around load and
\* playback
NextNotifyMidi ==
    \/ LoadStep({NotifyFile(2)})
    \/ ThreadStep
    \/ ThreadNotifies
    \/ JackStep
    \/ \E ev \in NotifyEvents : MidiArrives(ev)
    \/ JackSkipMidi
    \/ JackMidiNotifies

\* the shadows that init() does not write start with one value here
InitNotifyMidi == Init /\ ~divTraps

SpecNotifyMidi == InitNotifyMidi /\ [][NextNotifyMidi]_vars

(* ------------------------------ the Pattern ---------------------------- *)
\* pattern.cpp.  m_vEvents is the list of step events, each a record of the
\* fields the methods below read; m_vSnapshots the undo queue, a list of
\* such lists; m_vSnapshotPos the index (from 1) the iterator of that name
\* points at.
PPQN == 24

\* new StepEvent(ev): a copy with the fields of ev
CopyStepEvent(ev) ==
    [position |-> ev.position, command |-> ev.command,
     value1 |-> ev.value1, value1end |-> ev.value1end, duration |-> ev.duration]

RECURSIVE CopyStepEvents(_)
CopyStepEvents(sev) ==
    IF sev = <<>> THEN <<>>
    ELSE <<CopyStepEvent(Head(sev))>> \o CopyStepEvents(Tail(sev))

PatCalled(name, arg, ret) ==
    /\ patOp' = [name |-> name, arg |-> arg]
    /\ patRet' = ret

\* lines 64-68: the event at position with this duration overlaps ev
Overlaps(position, duration, ev) ==
    LET fEventEnd == position + duration
        fCheckEnd == ev.position + ev.duration
    IN  \/ ev.position >= position /\ ev.position < fEventEnd
        \/ fCheckEnd > position /\ fCheckEnd <= fEventEnd

\* lines 61-81: the events left once the overlapping ones of the same
\* command and value are deleted
RECURSIVE DeleteOverlapping(_, _, _, _, _)
DeleteOverlapping(sev, position, command, value1, duration) ==
    IF sev = <<>> THEN <<>>
    ELSE LET ev == Head(sev)
             rest == DeleteOverlapping(Tail(sev), position, command, value1, duration)
         IN  IF Overlaps(position, duration, ev)
                /\ ev.command = command /\ ev.value1 = value1
             THEN rest
             ELSE <<ev>> \o rest

\* lines 83-89: the event goes before the first one with a later position
RECURSIVE InsertEvent(_, _)
InsertEvent(sev, new) ==
    IF sev = <<>> THEN <<new>>
    ELSE IF Head(sev).position > new.position
         THEN <<new>> \o sev
         ELSE <<Head(sev)>> \o InsertEvent(Tail(sev), new)

\* new StepEvent(position, command, value1, value2, duration, offset): the
\* end value is the start value
NewStepEvent(position, command, value1, duration) ==
    [position |-> position, command |-> command,
     value1 |-> value1, value1end |-> value1, duration |-> duration]

\* lines 56-94: the events after addEvent
EventAdded(sev, position, command, value1, duration) ==
    InsertEvent(DeleteOverlapping(sev, position, command, value1, duration),
                NewStepEvent(position, command, value1, duration))

addEvent(position, command, value1, duration) ==
    /\ patOp.name # "none"
    /\ m_vEvents' = EventAdded(m_vEvents, position, command, value1, duration)
    /\ PatCalled("addEvent", position, TRUE)
    /\ UNCHANGED <<playerVars, ntfVars, dmxVars, m_vSnapshots, m_vSnapshotPos,
                   m_nStepsPerBeat, m_nBeats>>

\* lines 106-117: the first event that matches is erased
RECURSIVE EraseFirst(_, _, _, _)
EraseFirst(sev, position, command, value1) ==
    IF sev = <<>> THEN <<>>
    ELSE IF Head(sev).position = position /\ Head(sev).command = command
            /\ Head(sev).value1 = value1
         THEN Tail(sev)
         ELSE <<Head(sev)>> \o EraseFirst(Tail(sev), position, command, value1)

deleteEvent(position, command, value1) ==
    /\ patOp.name # "none"
    /\ m_vEvents' = EraseFirst(m_vEvents, position, command, value1)
    /\ PatCalled("deleteEvent", position, TRUE)
    /\ UNCHANGED <<playerVars, ntfVars, dmxVars, m_vSnapshots, m_vSnapshotPos,
                   m_nStepsPerBeat, m_nBeats>>

\* lines 345-348: the scale the loop of lines 367-371 uses.  Line 348
\* declares a second fScale in the else branch, so the one the loop reads
\* keeps the 1.0 of line 345.
ScaleUsed(value, steps) == FOne

\* lines 346-347: steps per beat before the switch
StepsBeforeSwitch(steps) == IF steps = 0 \/ steps > PPQN THEN 4 ELSE steps

\* lines 350-364: the values the switch accepts
StepsPerBeatValues == {1, 2, 3, 4, 6, 8, 12, 24}

\* lines 367-371: position and duration times fScale; the position is a
\* uint32_t
ScaleEvent(ev, fScale) ==
    [ev EXCEPT !.position = (ev.position * fScale) \div FOne,
               !.duration = (ev.duration * fScale) \div FOne]

RECURSIVE ScaleEvents(_, _)
ScaleEvents(sev, fScale) ==
    IF sev = <<>> THEN <<>>
    ELSE <<ScaleEvent(Head(sev), fScale)>> \o ScaleEvents(Tail(sev), fScale)

\* lines 343-373 from steps per beat `steps` and events sev: the steps per
\* beat, the events and the value returned
SetStepsPerBeatResult(value, steps, sev) ==
    IF value \in StepsPerBeatValues
    THEN [steps |-> value,
          events |-> ScaleEvents(sev, ScaleUsed(value, StepsBeforeSwitch(steps))),
          ret |-> TRUE]
    ELSE [steps |-> StepsBeforeSwitch(steps), events |-> sev, ret |-> FALSE]

setStepsPerBeat(value) ==
    /\ patOp.name # "none"
    /\ LET r == SetStepsPerBeatResult(value, m_nStepsPerBeat, m_vEvents)
       IN  /\ m_nStepsPerBeat' = r.steps
           /\ m_vEvents' = r.events
           /\ PatCalled("setStepsPerBeat", value, r.ret)
    /\ UNCHANGED <<playerVars, ntfVars, dmxVars, m_vSnapshots, m_vSnapshotPos, m_nBeats>>

\* A save that keeps the snapshots after the iterator.
SnapshotsAllKept(snapshots, pos) == snapshots

\* lines 644-650: the snapshots kept when one is saved with the iterator at
\* pos.  The first save of a Pattern finds the vector empty and a
\* value-initialised iterator, which is not below end().
SnapshotsKept(snapshots, pos) ==
    IF pos >= 1 /\ pos <= Len(snapshots)
    THEN SubSeq(snapshots, 1, pos)
    ELSE snapshots

\* lines 642-658
SnapshotsSaved(snapshots, pos, sev) ==
    Append(SnapshotsKept(snapshots, pos), CopyStepEvents(sev))

saveSnapshot ==
    /\ patOp.name # "none"
    /\ Len(SnapshotsKept(m_vSnapshots, m_vSnapshotPos)) < MaxSnapshots
    /\ m_vSnapshots' = SnapshotsSaved(m_vSnapshots, m_vSnapshotPos, m_vEvents)
    /\ m_vSnapshotPos' = Len(m_vSnapshots')
    /\ PatCalled("saveSnapshot", 0, TRUE)
    /\ UNCHANGED <<playerVars, ntfVars, dmxVars, m_vEvents, m_nStepsPerBeat, m_nBeats>>

RestoredWithoutClear(events, sev) == events \o CopyStepEvents(sev)
\* lines 620-629 with a snapshot that is there: the events after clear() and
\* the push_back of a copy of each event of the snapshot
RestoredEvents(events, sev) == CopyStepEvents(sev)

restoreSnapshot(sev) == m_vEvents' = RestoredEvents(m_vEvents, sev)

\* line 661
CanUndo(snapshots, pos) == pos > 1
\* line 670
CanRedo(snapshots, pos) == Len(snapshots) > 1 /\ pos < Len(snapshots)

\* lines 660-667
undo ==
    /\ patOp.name # "none"
    /\ IF CanUndo(m_vSnapshots, m_vSnapshotPos)
       THEN /\ m_vSnapshotPos' = m_vSnapshotPos - 1
            /\ restoreSnapshot(m_vSnapshots[m_vSnapshotPos'])
            /\ PatCalled("undo", 0, TRUE)
       ELSE /\ PatCalled("undo", 0, FALSE)
            /\ UNCHANGED <<m_vSnapshotPos, m_vEvents>>
    /\ UNCHANGED <<playerVars, ntfVars, dmxVars, m_vSnapshots, m_nStepsPerBeat, m_nBeats>>

\* lines 669-676
redo ==
    /\ patOp.name # "none"
    /\ IF CanRedo(m_vSnapshots, m_vSnapshotPos)
       THEN /\ m_vSnapshotPos' = m_vSnapshotPos + 1
            /\ restoreSnapshot(m_vSnapshots[m_vSnapshotPos'])
            /\ PatCalled("redo", 0, TRUE)
       ELSE /\ PatCalled("redo", 0, FALSE)
            /\ UNCHANGED <<m_vSnapshotPos, m_vEvents>>
    /\ UNCHANGED <<playerVars, ntfVars, dmxVars, m_vSnapshots, m_nStepsPerBeat, m_nBeats>>

\* lines 678-685
undoAll ==
    /\ patOp.name # "none"
    /\ IF CanUndo(m_vSnapshots, m_vSnapshotPos)
       THEN /\ m_vSnapshotPos' = 1
            /\ restoreSnapshot(m_vSnapshots[m_vSnapshotPos'])
            /\ PatCalled("undoAll", 0, TRUE)
       ELSE /\ PatCalled("undoAll", 0, FALSE)
            /\ UNCHANGED <<m_vSnapshotPos, m_vEvents>>
    /\ UNCHANGED <<playerVars, ntfVars, dmxVars, m_vSnapshots, m_nStepsPerBeat, m_nBeats>>

\* lines 687-694
redoAll ==
    /\ patOp.name # "none"
    /\ IF CanRedo(m_vSnapshots, m_vSnapshotPos)
       THEN /\ m_vSnapshotPos' = Len(m_vSnapshots)
            /\ restoreSnapshot(m_vSnapshots[m_vSnapshotPos'])
            /\ PatCalled("redoAll", 0, TRUE)
       ELSE /\ PatCalled("redoAll", 0, FALSE)
            /\ UNCHANGED <<m_vSnapshotPos, m_vEvents>>
    /\ UNCHANGED <<playerVars, ntfVars, dmxVars, m_vSnapshots, m_nStepsPerBeat, m_nBeats>>

\* lines 6-12: the constructor, with resetSnapshots (lines 631-640) on the
\* empty undo queue
Pattern(beats, stepsPerBeat) ==
    /\ patOp.name = "none"
    /\ m_nBeats' = beats
    /\ LET r == SetStepsPerBeatResult(stepsPerBeat, stepsPerBeat, <<>>)
       IN  /\ m_nStepsPerBeat' = r.steps
           /\ m_vEvents' = r.events
           /\ m_vSnapshots' = SnapshotsSaved(<<>>, 0, r.events)
           /\ m_vSnapshotPos' = 1
           /\ PatCalled("Pattern", stepsPerBeat, r.ret)
    /\ UNCHANGED <<playerVars, ntfVars, dmxVars>>

\* the calls made on the pattern
StepPositions == {0, 1, 3}
StepDurations == {2}
StepNotes == {MIDDLE_C}
StepsPerBeatArgs == {0, 4, 5, 8}

PatternEdit ==
    \/ \E pos \in StepPositions, d \in StepDurations, n \in StepNotes :
            addEvent(pos, NOTE_ON, n, d)
    \/ \E pos \in StepPositions, n \in StepNotes : deleteEvent(pos, NOTE_ON, n)
    \/ \E v \in StepsPerBeatArgs : setStepsPerBeat(v)

NextPattern ==
    \/ \E v \in StepsPerBeatArgs : Pattern(4, v)
    \/ PatternEdit
    \/ saveSnapshot
    \/ undo
    \/ redo
    \/ undoAll
    \/ redoAll

SpecPattern == Init /\ [][NextPattern]_vars

\* the commands of a control change and of a program change
MIDI_CONTROL == 176
MIDI_PROGRAM == 192
\* getProgramChange: no program change at this step
NoProgram == 255
\* the duration addEvent gives an event when the caller names none
DefaultDuration == 1

\* getSteps(), lines 319-322
Steps(beats, stepsPerBeat) == beats * stepsPerBeat

\* lines 119-126; the velocity is in range
addNote(step, note, duration) ==
    /\ patOp.name # "none"
    /\ IF step >= Steps(m_nBeats, m_nStepsPerBeat) \/ note > 127
       THEN UNCHANGED m_vEvents /\ PatCalled("addNote", step, FALSE)
       ELSE /\ m_vEvents' = EventAdded(m_vEvents, step, NOTE_ON, note, duration)
            /\ PatCalled("addNote", step, TRUE)
    /\ UNCHANGED <<playerVars, ntfVars, dmxVars, m_vSnapshots, m_vSnapshotPos,
                   m_nStepsPerBeat, m_nBeats>>

\* lines 128-131
removeNote(step, note) ==
    /\ patOp.name # "none"
    /\ m_vEvents' = EraseFirst(m_vEvents, step, NOTE_ON, note)
    /\ PatCalled("removeNote", step, TRUE)
    /\ UNCHANGED <<playerVars, ntfVars, dmxVars, m_vSnapshots, m_vSnapshotPos,
                   m_nStepsPerBeat, m_nBeats>>

\* lines 290-301: the program of the first program change at step
RECURSIVE getProgramChange(_, _)
getProgramChange(sev, step) ==
    IF sev = <<>> THEN NoProgram
    ELSE IF Head(sev).position = step /\ Head(sev).command = MIDI_PROGRAM
         THEN Head(sev).value1
         ELSE getProgramChange(Tail(sev), step)

\* lines 279-288, for a step of the pattern
removeProgramChange(sev, step) ==
    IF getProgramChange(sev, step) = NoProgram THEN sev
    ELSE EraseFirst(sev, step, MIDI_PROGRAM, getProgramChange(sev, step))

\* lines 270-277
addProgramChange(step, program) ==
    /\ patOp.name # "none"
    /\ IF step >= Steps(m_nBeats, m_nStepsPerBeat) \/ program > 127
       THEN UNCHANGED m_vEvents /\ PatCalled("addProgramChange", step, FALSE)
       ELSE /\ m_vEvents' = EventAdded(removeProgramChange(m_vEvents, step), step,
                                       MIDI_PROGRAM, program, DefaultDuration)
            /\ PatCalled("addProgramChange", step, TRUE)
    /\ UNCHANGED <<playerVars, ntfVars, dmxVars, m_vSnapshots, m_vSnapshotPos,
                   m_nStepsPerBeat, m_nBeats>>

\* line 306: step > (m_nBeats * m_nStepsPerBeat) || control > 127 || ... ||
\* fDuration > (m_nBeats * m_nStepsPerBeat); the values are in range
ControlRefused(step, control, duration, steps) ==
    step > steps \/ control > 127 \/ duration > steps

\* lines 303-312
addControl(step, control, duration) ==
    /\ patOp.name # "none"
    /\ IF ControlRefused(step, control, duration, Steps(m_nBeats, m_nStepsPerBeat))
       THEN UNCHANGED m_vEvents /\ PatCalled("addControl", step, FALSE)
       ELSE /\ m_vEvents' = EventAdded(m_vEvents, step, MIDI_CONTROL, control, duration)
            /\ PatCalled("addControl", step, TRUE)
    /\ UNCHANGED <<playerVars, ntfVars, dmxVars, m_vSnapshots, m_vSnapshotPos,
                   m_nStepsPerBeat, m_nBeats>>

\* lines 385-390: the events before the first one at or after step `steps`
RECURSIVE EventsBefore(_, _)
EventsBefore(sev, steps) ==
    IF sev = <<>> \/ Head(sev).position >= steps THEN <<>>
    ELSE <<Head(sev)>> \o EventsBefore(Tail(sev), steps)

\* lines 380-391
setBeatsInPattern(beats) ==
    /\ patOp.name # "none"
    /\ m_nBeats' = IF beats > 0 THEN beats ELSE m_nBeats
    /\ m_vEvents' = EventsBefore(m_vEvents, Steps(m_nBeats', m_nStepsPerBeat))
    /\ PatCalled("setBeatsInPattern", beats, TRUE)
    /\ UNCHANGED <<playerVars, ntfVars, dmxVars, m_vSnapshots, m_vSnapshotPos,
                   m_nStepsPerBeat>>

\* A transposition that is never refused.
TransposeUnchecked(sev, value) == TRUE

\* lines 461-468: no note leaves 0..127
TransposeInRange(sev, value) ==
    \A i \in 1..Len(sev) :
        sev[i].command = NOTE_ON =>
            (sev[i].value1 + value <= 127 /\ sev[i].value1 + value >= 0)

\* lines 470-487: a note pushed out of range is erased, the others get the
\* new note as start and end value
RECURSIVE TransposedEvents(_, _)
TransposedEvents(sev, value) ==
    IF sev = <<>> THEN <<>>
    ELSE LET ev == Head(sev)
             note == ev.value1 + value
             rest == TransposedEvents(Tail(sev), value)
         IN  IF ev.command # NOTE_ON THEN <<ev>> \o rest
             ELSE IF note > 127 \/ note < 0 THEN rest
             ELSE <<[ev EXCEPT !.value1 = note, !.value1end = note]>> \o rest

\* lines 458-488.  The notes of the model stay within NoteSpan of 127.
transpose(value) ==
    /\ patOp.name # "none"
    /\ \A i \in 1..Len(m_vEvents) :
            m_vEvents[i].command = NOTE_ON =>
                m_vEvents[i].value1 + value >= 127 - NoteSpan
    /\ m_vEvents' = IF TransposeInRange(m_vEvents, value)
                    THEN TransposedEvents(m_vEvents, value)
                    ELSE m_vEvents
    /\ PatCalled("transpose", value, TRUE)
    /\ UNCHANGED <<playerVars, ntfVars, dmxVars, m_vSnapshots, m_vSnapshotPos,
                   m_nStepsPerBeat, m_nBeats>>

\* the calls that edit the events of a pattern of one or two beats
EditBeats == {1, 2}
EditStepsPerBeat == {1, 2}
NoteSteps == {0, 1, 2}
NoteDurations == {1, 3}
EditNotes == {127}
ControlSteps == {1, 2}
EditControls == {7}
ProgramSteps == {0}
EditPrograms == {1}

NextPatternEdit ==
    \/ \E b \in EditBeats : Pattern(b, 1)
    \/ \E step \in NoteSteps, n \in EditNotes, d \in NoteDurations : addNote(step, n, d)
    \/ \E step \in NoteSteps, n \in EditNotes : removeNote(step, n)
    \/ \E step \in ProgramSteps, pr \in EditPrograms : addProgramChange(step, pr)
    \/ \E step \in ControlSteps, c \in EditControls : addControl(step, c, DefaultDuration)
    \/ \E b \in EditBeats \cup {0} : setBeatsInPattern(b)
    \/ \E v \in EditStepsPerBeat : setStepsPerBeat(v)

SpecPatternEdit == Init /\ [][NextPatternEdit]_vars

\* transpositions of a pattern of notes and a control change
TransposedNotes == {126, 127}
EditTranspositions == {0 - 1, 1}

NextTranspose ==
    \/ Pattern(1, 4)
    \/ \E step \in ControlSteps, n \in TransposedNotes : addNote(step, n, DefaultDuration)
    \/ \E step \in ControlSteps, c \in EditControls : addControl(step, c, DefaultDuration)
    \/ \E value \in EditTranspositions : transpose(value)

SpecTranspose == Init /\ [][NextTranspose]_vars

(* ------------------------- one frame of the demux ---------------------- *)
\* lines 413-437 with sample values: what a frame of the file puts on ring A
\* and ring B.  Samples are floats whose divisions below are exact.
FDiv(x, k) == x \div k

\* lines 419-420 and 427-428: channels first, first + 2, ... of the frame,
\* each divided by channels / 2 (an integer division), summed
RECURSIVE MixFrom(_, _)
MixFrom(buf, first) ==
    IF first > Len(buf) THEN 0
    ELSE FDiv(buf[first], Len(buf) \div 2) + MixFrom(buf, first + 2)

\* lines 416-424 and 433-435: the sample for ring A
SampleA(buf, ta) ==
    IF Len(buf) > 1
    THEN IF ta < 0 THEN MixFrom(buf, 1) ELSE buf[ta + 1]
    ELSE FDiv(buf[1], 2)

\* lines 425-432 and 433-436: the sample for ring B
SampleB(buf, tb) ==
    IF Len(buf) > 1
    THEN IF tb < 0 THEN MixFrom(buf, 2) ELSE buf[tb + 1]
    ELSE FDiv(buf[1], 2)

\* lines 413-438 for one frame
DemuxFrame ==
    /\ fA = NoSample
    /\ fA' = SampleA(pBufferOut, dmxA)
    /\ fB' = SampleB(pBufferOut, dmxB)
    /\ UNCHANGED <<playerVars, ntfVars, pBufferOut, dmxA, dmxB, patVars>>

\* the frames demuxed: up to MaxDemuxChannels channels, with selectors that
\* are below the channel count
Samples == {0, 6, 12}
DemuxFrames == UNION {[1..n -> Samples] : n \in 1..MaxDemuxChannels}

InitDemux ==
    /\ InitPlayer
    /\ NoPattern
    /\ NoNotification
    /\ pBufferOut \in DemuxFrames
    /\ dmxA \in (0 - 1)..(Len(pBufferOut) - 1)
    /\ dmxB \in (0 - 1)..(Len(pBufferOut) - 1)
    /\ fA = NoSample
    /\ fB = NoSample

NextDemux == DemuxFrame

SpecDemux == InitDemux /\ [][NextDemux]_vars

(* --------------------------- the host's rate --------------------------- *)
\* on_jack_samplerate(), lines 780-784: the rate is stored
on_jack_samplerate(nFrames) ==
    /\ ~fault
    /\ g_samplerate' = nFrames
    /\ UNCHANGED <<regVars, fieldVars, threadVars, ctlVars, bpc, jackVars,
                   seekReq, divTraps, dmxVars, patVars, ntfVars, midiVars, src_ratio, srcVars, setVars,
                   trackVars, channels, fault>>

\* the rates jackd reports and the files loaded
HostRates == {1, 2}
RateFiles ==
    {[opens |-> TRUE, frames |-> MaxFileFrames, channels |-> 1, samplerate |-> r] :
        r \in HostRates}

NextRate ==
    \/ LoadUnloadStep(RateFiles)
    \/ ThreadStep
    \/ \E r \in HostRates : on_jack_samplerate(r)

SpecRate == Init /\ [][NextRate]_vars


(* ============================ player registry ========================== *)
\* g_players[MAX_PLAYERS], line 92
Slots == 0..(MAX_PLAYERS - 1)

\* the handles callers pass: those within EdgeWidth of either end of the table
HandleInputs == ((0 - 1)..(EdgeWidth - 1)) \cup ((MAX_PLAYERS - EdgeWidth)..(MAX_PLAYERS + 1))

\* line 103: the handles get_player refuses
HandleRejected(h) == h > MAX_PLAYERS \/ h < 0

\* line 105 indexes g_players with every other handle
ReadsOutside(h) == ~HandleRejected(h) /\ h \notin Slots

\* get_player(), lines 102-106: what it can return.  An index past the
\* table reads whatever follows it in memory, NULL or not.
GetPlayer(h) ==
    IF HandleRejected(h) THEN {NoPlayer}
    ELSE IF h \in Slots THEN {g_players[h]} ELSE {NoPlayer, Wild}

\* lines 812-817: the first slot that holds no instance
FreeSlots == {i \in Slots : g_players[i] = NoPlayer}
FirstFree == CHOOSE i \in FreeSlots : \A j \in FreeSlots : i <= j

\* An init that gives every instance handle 0.
HandleAlwaysZero(slot) == 0

\* line 836: pPlayer->handle = player_handle
HandleField(slot) == slot

\* init(), lines 809-885.  jackOk: the JACK client and its ports can be
\* created and activated; when they cannot, init returns -1 and leaves
\* g_players alone (the instance it allocated is not released).
init(jackOk) ==
    /\ ~fault
    /\ regOp' = "init"
    /\ regArg' = IF jackOk THEN 1 ELSE 0
    /\ oobRead' = FALSE
    /\ IF FreeSlots # {} /\ jackOk
       THEN /\ g_players' = [g_players EXCEPT ![FirstFree] = HandleField(FirstFree)]
            /\ regRet' = FirstFree
       ELSE /\ regRet' = NoPlayer
            /\ UNCHANGED g_players
    /\ UNCHANGED <<fieldVars, threadVars, ctlVars, bpc, jackVars, seekReq, divTraps, dmxVars, patVars, ntfVars, midiVars, rateVars, srcVars, setVars, trackVars, channels, fault>>

\* remove_player(), lines 659-676, of an instance with no file loaded
\* (unload returns at once).  Every slot that holds the instance is
\* cleared; end() then finds nothing to remove.  A pointer read from
\* outside the table is dereferenced when it is not NULL.
remove_player(h) ==
    /\ ~fault
    /\ regOp' = "remove"
    /\ regArg' = h
    /\ oobRead' = ReadsOutside(h)
    /\ \E p \in GetPlayer(h) :
        /\ regRet' = p
        /\ IF p = Wild
           THEN fault' = TRUE /\ UNCHANGED g_players
           ELSE /\ UNCHANGED fault
                /\ g_players' = [i \in Slots |->
                      IF p # NoPlayer /\ g_players[i] = p THEN NoPlayer ELSE g_players[i]]
    /\ UNCHANGED <<fieldVars, threadVars, ctlVars, bpc, jackVars, seekReq, divTraps, dmxVars, patVars, ntfVars, midiVars, rateVars, srcVars, setVars, trackVars, channels>>

\* get_player() as every other control call starts with it (lines 102-106);
\* the caller dereferences what is not NULL.
lookup(h) ==
    /\ ~fault
    /\ regOp' = "lookup"
    /\ regArg' = h
    /\ oobRead' = ReadsOutside(h)
    /\ regRet' \in GetPlayer(h)
    /\ fault' = (regRet' = Wild)
    /\ UNCHANGED <<g_players, fieldVars, threadVars, ctlVars, bpc, jackVars, seekReq, divTraps, dmxVars, patVars, ntfVars, midiVars, rateVars, srcVars, setVars, trackVars, channels>>

InitRegistry == EmptyRegistry /\ InitInstance /\ NoFrame /\ NoPattern /\ NoNotification

NextRegistry ==
    \/ \E jackOk \in BOOLEAN : init(jackOk)
    \/ \E h \in HandleInputs : remove_player(h)
    \/ \E h \in HandleInputs : lookup(h)

SpecRegistry == InitRegistry /\ [][NextRegistry]_vars


(* ======================================================================= *)
(*                              properties                                 *)
(* ======================================================================= *)
LoadReturned == cpc = "idle" /\ lastop \in {"load_true", "load_false"}
UnloadReturned == cpc = "idle" /\ lastop = "unload"
InLoad == cpc \in {"load_poll", "load_cb", "load_ret"}

\* C1: load returns only once file_open is no longer 1 (Opening), and it
\* returns true exactly when file_open is 2 (Open) at that moment; when it
\* returns false the instance is closed (file_open is 0).
C1_LoadResult ==
    /\ cpc \in {"load_cb", "load_ret"} => file_open # 1
    /\ LoadReturned => /\ file_open # 1
                       /\ (lastop = "load_true") <=> (file_open = 2)
                       /\ (lastop = "load_false") => (file_open = 0)

\* C1 witnesses: a load of a good file has returned true with the file
\* open.
C1_Witness == LoadReturned /\ lastop = "load_true" /\ file_open = 2 /\ rings = "alloc"

\* C2: a load whose file cannot be opened, or whose thread cannot be
\* created, returns false with file_open 0; file_open is never 2 during
\* the call, no ring buffer is allocated, and the call does return (the
\* process is not killed on the way).
C2_FailedLoad ==
    /\ (InLoad /\ SfOpenFails(filename)) => (file_open # 2 /\ rings # "alloc")
    /\ (LoadReturned /\ SfOpenFails(filename)) =>
            (lastop = "load_false" /\ file_open = 0 /\ rings # "alloc")
    /\ cret = "fail" => (file_open # 2 /\ rings # "alloc" /\ ~fault)
    /\ (cpc = "idle" /\ lastop = "load_nothread") => (file_open = 0 /\ rings # "alloc")

\* C3: after unload returns, file_open is 0, play_state is STOPPED and
\* play_pos_frames is 0.
C3_AfterUnload ==
    UnloadReturned => (file_open = 0 /\ play_state = STOPPED /\ play_pos_frames = 0)

\* C4: after unload returns no reader thread is running or exited and not
\* joined, and no ring buffer is allocated.
C4_NoThreadLeft ==
    UnloadReturned => (tst = "none" /\ rings # "alloc")

\* C5: when another context calls unload while load is polling, the reader
\* thread never sets file_open to 2 after that unload set it to 0.
C5_NoOpenAfterClose ==
    [][(bpc = "join" /\ file_open = 0) => file_open' # 2]_vars

\* C6: once unload has cleared file_open and waits in pthread_join, the
\* reader thread leaves its loop and the join returns, also from the wait
\* for ring space with no callback draining the rings, as long as the
\* thread keeps being scheduled (the process has not been killed).
C6_JoinReturns ==
    (cpc = "unl_join" /\ cret # "fail") ~> (cpc # "unl_join" \/ fault)

\* C6 witness: unload waits in the join while the reader thread sits in the
\* wait for ring space, both rings too full for the block it read.
C6_Witness ==
    /\ cpc = "unl_join"
    /\ cret # "fail"
    /\ ThreadAt("wait")
    /\ MustWait
    /\ jpc = "idle"

LiveCount == Cardinality({i \in Slots : g_players[i] # NoPlayer})

\* the handles of live instances are distinct, in range, and each instance
\* sits in the slot equal to its handle
RegistryInv == \A i \in Slots : g_players[i] \in {NoPlayer, i}

\* a failing init changes no slot; a successful one fills one free slot
InitEffect ==
    regOp' = "init" =>
        IF regRet' = NoPlayer
        THEN g_players' = g_players
        ELSE /\ regRet' \in FreeSlots
             /\ g_players' = [g_players EXCEPT ![regRet'] = regRet']

\* remove_player(h) of a slot frees exactly slot h
RemoveEffect ==
    (regOp' = "remove" /\ regArg' \in Slots) =>
        g_players' = [g_players EXCEPT ![regArg'] = NoPlayer]

\* C7 as stated: the registry invariant, init succeeds exactly when fewer
\* than MAX_PLAYERS instances are live, a failing init changes nothing,
\* remove_player(h) frees exactly slot h.
C7_AsStated ==
    /\ []RegistryInv
    /\ [][/\ InitEffect
          /\ RemoveEffect
          /\ regOp' = "init" => ((regRet' # NoPlayer) <=> (LiveCount < MAX_PLAYERS))]_vars

\* C7, amended: as stated, but init succeeds exactly when fewer than
\* MAX_PLAYERS instances are live and JACK accepts the new client and its
\* ports.
C7_Registry ==
    /\ []RegistryInv
    /\ [][/\ InitEffect
          /\ RemoveEffect
          /\ regOp' = "init" =>
                ((regRet' # NoPlayer) <=> (LiveCount < MAX_PLAYERS /\ regArg' = 1))]_vars

\* C7 witness: with all MAX_PLAYERS slots taken an init has failed, after a
\* slot had been freed and taken again.
C7_Witness ==
    /\ LiveCount = MAX_PLAYERS
    /\ regOp = "init"
    /\ regArg = 1
    /\ regRet = NoPlayer

\* C8: a lookup with a handle outside 0..MAX_PLAYERS-1, or of a slot that
\* holds no instance, yields no instance, reads nothing outside g_players
\* and does not fault.
C8_LookupSafe ==
    (/\ regOp = "lookup"
     /\ IF regArg \in Slots THEN g_players[regArg] = NoPlayer ELSE TRUE)
        => (regRet = NoPlayer /\ ~oobRead /\ ~fault)

\* C9: a callback that started with loop enabled, on an open file (of at
\* least one frame) that is playing with loop still enabled, does not stop
\* playback.
C9_LoopNeverStops ==
    [][(/\ jpc # "idle"
        /\ loopAtEntry = 1
        /\ loop = 1
        /\ file_open = 2
        /\ frames > 0
        /\ play_state = PLAYING) => play_state' # STOPPED]_vars

Playing == quiet /\ file_open = 2 /\ play_state = PLAYING /\ loop = 0
Recued == play_state = STOPPED /\ file_read_status \in {LOADING, IDLE} /\ loop = 0

\* C10: with loop disabled and no further control calls, an open instance
\* that is playing is eventually stopped at end of file with the position
\* back at 0 and a seek requested, and the reader thread then re-cues the
\* file.
C10_StopsAtEof ==
    /\ Playing ~> (play_state = STOPPED /\ play_pos_frames = 0
                   /\ file_read_status \in {SEEKING, LOADING, IDLE})
    /\ Playing ~> Recued

\* the play positions reached from frame t by rendering at most one period
WithinOnePeriod(t) == {(t + k) % frames : k \in 0..NFrames}

\* C11: when the status leaves SEEKING after a set_position for a frame
\* inside the file, the play position is the requested frame plus at most
\* one period, the file is positioned at that play position, and the rings
\* hold nothing read before the request.
C11_SeekLands ==
    [][(/\ file_read_status = SEEKING
        /\ file_read_status' # SEEKING
        /\ seekReq # NoSeek)
       => (/\ play_pos_frames' \in WithinOnePeriod(seekReq)
           /\ filePos' = play_pos_frames'
           /\ ringbuffer_a' = <<>>
           /\ ringbuffer_b' = <<>>)]_vars

\* the step is the end of a callback that read the rings
CallbackEnds == jpc = "readB" /\ jpc' = "idle"

\* C12: a callback that finds ring A empty while the status is SEEKING,
\* LOADING or LOOPING leaves play_state PLAYING; play_state goes from
\* PLAYING to STOPPED only at the end of a callback that saw the status
\* IDLE and ring A empty.
C12_UnderrunNoStop ==
    [][/\ (/\ CallbackEnds
           /\ play_state = PLAYING
           /\ file_read_status \in {SEEKING, LOADING, LOOPING})
          => play_state' = PLAYING
       /\ (play_state = PLAYING /\ play_state' = STOPPED)
          => (/\ CallbackEnds
              /\ file_read_status = IDLE
              /\ ringbuffer_a = <<>>)]_vars

\* C12 witness: a callback has read nothing from ring A (an underrun) while
\* playing with the reader thread still loading.
C12_Witness ==
    /\ jpc = "readB"
    /\ rings = "alloc"
    /\ count = 0
    /\ ringbuffer_a = <<>>
    /\ play_state = PLAYING
    /\ file_read_status = LOADING

\* line 694: the frames ring B yields for the count read from ring A
DrainedFromB == Min(count, Len(ringbuffer_b))

\* C13: a callback drains as many frames from ring B as from ring A, at
\* most nFrames, and none when play_state is neither PLAYING nor STOPPING.
C13_SameCount ==
    /\ count <= NFrames
    /\ jpc = "pos" => count = 0
    /\ (jpc = "readB" /\ rings = "alloc") => DrainedFromB = count

\* C14: no step taken while a callback is running on an open instance with
\* its rings allocated kills the process, whatever the frame count of the
\* file: the wrap of the play position never divides by zero.
C14_CallbackNeverFaults ==
    [][(/\ jpc \in {"readB", "pos"}
        /\ file_open = 2
        /\ rings = "alloc") => ~fault']_vars

CallbackReturns == jpc # "idle" /\ jpc' = "idle"
SetPositionReturns == cpc = "setpos_a" /\ cpc' = "idle"

\* C16: on an open instance the play position is below the frame count of
\* the file after every callback and after every set_position, whatever
\* time was asked for.
C16_PositionInFile ==
    [][(file_open' = 2 /\ (CallbackReturns \/ SetPositionReturns))
       => (0 <= play_pos_frames' /\ play_pos_frames' < frames')]_vars

\* a float in [0, 2]
GainInRange(g) == g # FNaN /\ 0 <= g /\ g <= 2 * FOne

\* C17: set_gain stores no value outside [0, 2], so the gain of an open
\* instance lies in [0, 2] whatever calls and controller events came.
C17_GainInRange == file_open = 2 => GainInRange(gain)

\* the step is a call of setter op that has returned
SetterCall(op) ==
    /\ cpc = "idle"
    /\ cpc' = "idle"
    /\ lastop' = "none"
    /\ setOp' = op
    /\ UNCHANGED threadVars

\* the fields of the instance
InstanceFields == <<fieldVars, gain, src_quality, buffer_size, buffer_count,
                    trackVars, channels>>

ClosedSetterCall ==
    /\ file_open = 0
    /\ cpc = "idle"
    /\ cpc' = "idle"
    /\ lastop' = "none"
    /\ UNCHANGED <<threadVars, jackVars, bpc>>

\* C19: a setter other than the buffer setters, called on a closed
\* instance, leaves every field of the instance unchanged, loop and
\* file_read_status included.
C19_ClosedSetterNoOp ==
    [][ClosedSetterCall => UNCHANGED InstanceFields]_vars

\* a selector clamped to the channels of the file
TrackClamped(i) == IF channels = 1 THEN 0 ELSE Min(i, channels - 1)

\* C20 as stated: on an open instance set_track_a(i) and set_track_b(i)
\* store i clamped to the channel count.
C20_AsStated ==
    [][/\ (SetterCall("set_track_a") /\ file_open = 2)
            => track_a' = TrackClamped(setArg')
       /\ (SetterCall("set_track_b") /\ file_open = 2)
            => track_b' = TrackClamped(setArg')]_vars

\* what a call with selector i leaves in a field that held old
TrackKept(i, old, new) ==
    /\ new <= channels - 1
    /\ (channels = 1) => (new = 0)
    /\ (channels > 1 /\ i < channels) => (new = i)
    /\ (i >= channels) => (new = old)

\* the selectors of an open instance address a channel of the frame
TracksInFrame ==
    (file_open = 2) =>
        /\ track_a < channels
        /\ track_b < channels
        /\ DemuxIndex(track_a) \in 0..(channels - 1)
        /\ DemuxIndex(track_b) \in 0..(channels - 1)

\* C20: on an open instance with C channels set_track_a(i) and
\* set_track_b(i) store i when i < C, 0 when C == 1, and leave the selector
\* as it was when i >= C; the selector is at most C - 1 after every call and
\* in every open state, and the demux reads a channel of the frame.
C20_TrackInRange ==
    /\ []TracksInFrame
    /\ [][/\ (SetterCall("set_track_a") /\ file_open = 2)
                 => TrackKept(setArg', track_a, track_a')
          /\ (SetterCall("set_track_b") /\ file_open = 2)
                 => TrackKept(setArg', track_b, track_b')]_vars

\* C20 witness: on an open two-channel file set_track_a was called with a
\* selector past the last channel, and the selector stored before is kept.
C20_Witness ==
    /\ file_open = 2
    /\ channels = 2
    /\ cpc = "idle"
    /\ lastop = "none"
    /\ setOp = "set_track_a"
    /\ setArg = 2
    /\ track_a = 1

\* the step is the callback handling a note-on of velocity above 0 on an
\* open instance
NoteOnProcessed ==
    /\ jpc = "midi"
    /\ jpc' = "idle"
    /\ midiBuf.cmd = NOTE_ON
    /\ midiBuf.vel > 0
    /\ file_open = 2

\* C21: a note-on of velocity above 0 for note k handled by the callback of
\* an open instance leaves pitch_shift = 60 - k, play_pos_frames = 0,
\* file_read_status = SEEKING, play_state = STARTING and last_note_played = k,
\* whatever play_state was.
C21_NoteOnRestarts ==
    [][NoteOnProcessed =>
        /\ pitch_shift' = MIDDLE_C - midiBuf.note
        /\ play_pos_frames' = 0
        /\ file_read_status' = SEEKING
        /\ play_state' = STARTING
        /\ last_note_played' = midiBuf.note]_vars

\* the step is the callback handling the event of the period
EventProcessed == jpc = "midi" /\ jpc' = "idle"

\* the event is a note-off: status NoteOff, or NoteOn with velocity 0
NoteOffEvent ==
    \/ midiBuf.cmd = NOTE_OFF
    \/ midiBuf.cmd = NOTE_ON /\ midiBuf.vel = 0

\* stop has been requested
StopRequested == play_state' = IF play_state = STOPPED THEN STOPPED ELSE STOPPING

\* C22: a note-off (status NoteOff, or NoteOn of velocity 0) for the
\* remembered note requests stop and clears pitch_shift; a note-off for
\* another note changes none of play_state, pitch_shift, play_pos_frames and
\* file_read_status.
C22_NoteOffMatches ==
    [][(EventProcessed /\ NoteOffEvent) =>
        IF midiBuf.note = last_note_played
        THEN StopRequested /\ pitch_shift' = 0
        ELSE UNCHANGED <<play_state, pitch_shift, play_pos_frames,
                         file_read_status>>]_vars

\* C23: the base ratio of an open instance is the rate the host reported
\* last over the rate of the file, whether the instance was open when the
\* host reported it or was loaded afterwards.
C23_RatioFollowsHost ==
    file_open = 2 => src_ratio * sf_samplerate = g_samplerate * FOne

\* the channels of a frame of n channels with an even index (counted from
\* 0), and those with an odd one, as positions in pBufferOut
EvenChannels(n) == {i \in 1..n : i % 2 = 1}
OddChannels(n) == {i \in 1..n : i % 2 = 0}

RECURSIVE ChannelSum(_, _)
ChannelSum(buf, S) ==
    IF S = {} THEN 0
    ELSE LET i == CHOOSE j \in S : TRUE IN buf[i] + ChannelSum(buf, S \ {i})

\* x is the arithmetic mean of the channels S of the frame
IsMeanOf(x, buf, S) == x * Cardinality(S) = ChannelSum(buf, S)

\* C24: for every frame of N >= 2 channels, with track_a < 0 the sample for
\* ring A is the mean of the even-indexed channels and with track_b < 0 the
\* sample for ring B is the mean of the odd-indexed channels; with N == 1
\* both are sample / 2.
C24_MixIsMean ==
    fA # NoSample =>
        LET n == Len(pBufferOut)
        IN  /\ (n >= 2 /\ dmxA < 0) => IsMeanOf(fA, pBufferOut, EvenChannels(n))
            /\ (n >= 2 /\ dmxB < 0) => IsMeanOf(fB, pBufferOut, OddChannels(n))
            /\ (n = 1) => (fA * 2 = pBufferOut[1] /\ fB * 2 = pBufferOut[1])

\* the pattern methods that edit the event list
PatternEdits == {"addEvent", "deleteEvent", "setStepsPerBeat"}

\* C25: undo/redo round trip.  A saveSnapshot stores the event list as the
\* newest snapshot, right after the one that was current, and leaves the
\* list alone; an undo returns true and makes the list the snapshot before
\* the current one, or at the oldest returns false and leaves the list; a
\* redo returns true and makes the list the snapshot after the current one,
\* or at the newest returns false and leaves the list; an edit alters no
\* stored snapshot, and neither does an undo or a redo.
C25_UndoRedoRoundTrip ==
    [][/\ patOp'.name = "saveSnapshot" =>
            /\ m_vSnapshotPos' = Len(m_vSnapshots')
            /\ m_vSnapshots'[m_vSnapshotPos'] = m_vEvents
            /\ m_vSnapshots'[m_vSnapshotPos' - 1] = m_vSnapshots[m_vSnapshotPos]
            /\ m_vEvents' = m_vEvents
       /\ patOp'.name = "undo" =>
            /\ m_vSnapshots' = m_vSnapshots
            /\ IF m_vSnapshotPos > 1
               THEN /\ patRet'
                    /\ m_vSnapshotPos' = m_vSnapshotPos - 1
                    /\ m_vEvents' = m_vSnapshots[m_vSnapshotPos - 1]
               ELSE /\ ~patRet'
                    /\ m_vSnapshotPos' = m_vSnapshotPos
                    /\ m_vEvents' = m_vEvents
       /\ patOp'.name = "redo" =>
            /\ m_vSnapshots' = m_vSnapshots
            /\ IF m_vSnapshotPos < Len(m_vSnapshots)
               THEN /\ patRet'
                    /\ m_vSnapshotPos' = m_vSnapshotPos + 1
                    /\ m_vEvents' = m_vSnapshots[m_vSnapshotPos + 1]
               ELSE /\ ~patRet'
                    /\ m_vSnapshotPos' = m_vSnapshotPos
                    /\ m_vEvents' = m_vEvents
       /\ patOp'.name \in PatternEdits =>
            /\ m_vSnapshots' = m_vSnapshots
            /\ m_vSnapshotPos' = m_vSnapshotPos
      ]_vars

\* a redo has brought back the second of two different snapshots
C25_Witness ==
    /\ patOp.name = "redo"
    /\ patRet
    /\ m_vSnapshotPos = 2
    /\ m_vSnapshots[1] # m_vSnapshots[2]
    /\ m_vEvents = m_vSnapshots[2]
    /\ m_vEvents # <<>>

\* C26: setStepsPerBeat(v) returns true and sets steps per beat to v iff v
\* is one of 1, 2, 3, 4, 6, 8, 12, 24; for any other v it returns false and
\* changes nothing; on success with previous value p every event's position
\* and duration are multiplied by v / p.
C26_StepsPerBeatScales ==
    [][patOp'.name = "setStepsPerBeat" =>
        LET v == patOp'.arg
            p == m_nStepsPerBeat
        IN  IF v \in {1, 2, 3, 4, 6, 8, 12, 24}
            THEN /\ patRet'
                 /\ m_nStepsPerBeat' = v
                 /\ Len(m_vEvents') = Len(m_vEvents)
                 /\ \A i \in 1..Len(m_vEvents) :
                        /\ m_vEvents'[i].position * p = m_vEvents[i].position * v
                        /\ m_vEvents'[i].duration * p = m_vEvents[i].duration * v
            ELSE /\ ~patRet'
                 /\ m_nStepsPerBeat' = p
                 /\ m_vEvents' = m_vEvents
      ]_vars

\* the step is the entry of a callback on an open instance (lines 683-690)
CallbackEnters == jpc = "idle" /\ jpc' \in {"readA", "pos"}
\* the step is the end of the audio part of a callback (lines 703-718)
CallbackFinishes == jpc \in {"readB", "pos"} /\ jpc' \in {"idle", "midi"}

TransportEdges ==
    {<<STOPPED, STARTING>>, <<STOPPING, STARTING>>, <<PLAYING, STARTING>>,
     <<STARTING, PLAYING>>,
     <<STARTING, STOPPING>>, <<PLAYING, STOPPING>>,
     <<PLAYING, STOPPED>>, <<STOPPING, STOPPED>>}

StoppingCallbackReturns ==
    /\ jpc = "readB"
    /\ jpc' \in {"idle", "midi"}
    /\ play_state = STOPPING
    /\ file_open = 2
    /\ rings = "alloc"

\* line 695 as that callback evaluates it
EofObserved == file_read_status = IDLE /\ ringbuffer_a = <<>>

\* a callback is between its entry and the end of its audio part, with
\* play_state STOPPING
StoppingInCallback == jpc \in {"readA", "readB"} /\ play_state = STOPPING

C29_NoSeekLost ==
    [][(/\ file_open = 2
        /\ file_read_status = SEEKING
        /\ file_read_status' # SEEKING)
       => (/\ file_read_status' = LOADING
           /\ tpc = "seek"
           /\ ringbuffer_a' = <<>>
           /\ ringbuffer_b' = <<>>)]_vars

\* C30: the frames of a short read are written to the rings like those of
\* any other block, whether the read set the status to IDLE or to LOOPING:
\* when the reader thread of an open instance leaves its wait for ring
\* space holding frames it has read, with no seek requested, it goes on to
\* demux that block.
C30_ShortReadWritten ==
    [][(/\ tpc = "wait"
        /\ tpc' # "wait"
        /\ file_open = 2
        /\ file_read_status \in {LOADING, IDLE, LOOPING}
        /\ nFramesRead > 0)
       => (tpc' = "demux" /\ nFramesRead' = nFramesRead)]_vars

\* C31: unless cancelled, the reader thread starts writing a block only
\* when ring A and ring B each have room for all its frames, and every
\* frame of the block it writes is taken whole by both rings.
C31_RoomForBlock ==
    [][/\ (tpc = "wait" /\ tpc' = "demux") =>
            /\ WriteSpace(ringbuffer_a) >= nFramesRead
            /\ WriteSpace(ringbuffer_b) >= nFramesRead
       /\ (tpc = "demux" /\ frame' = frame + 1) =>
            /\ Len(ringbuffer_a') = Len(ringbuffer_a) + 1
            /\ Len(ringbuffer_b') = Len(ringbuffer_b) + 1
      ]_vars

\* the step empties a ring that held frames
RingEmptied ==
    \/ ringbuffer_a # <<>> /\ ringbuffer_a' = <<>>
    \/ ringbuffer_b # <<>> /\ ringbuffer_b' = <<>>
\* the step is a read of a ring by the callback (lines 693-694)
CallbackReads == jpc \in {"readA", "readB"} /\ jpc' # jpc

\* C32: the rings are reset only by the reader thread, at the start of its
\* handling of a SEEKING or LOOPING status: a ring that holds frames is
\* emptied only by a read of the callback or by that step of the thread.
C32_ResetByThreadOnly ==
    [][(RingEmptied /\ ~CallbackReads)
       => (/\ tpc = "loop"
           /\ tpc' # "loop"
           /\ file_read_status \in {SEEKING, LOOPING})]_vars

\* C33: a callback never reads or queries a ring that has been freed or is
\* not yet allocated: while a callback is at its ring reads (lines
\* 693-695) the rings are allocated.
C33_CallbackRingsAllocated ==
    (~fault /\ jpc \in {"readA", "readB"}) => rings = "alloc"

\* the frames of ring A are, in order, those of ring B from its n-th on
AlignedFrom(n) ==
    \A k \in 1..Len(ringbuffer_a) :
        (n + k <= Len(ringbuffer_b)) => ringbuffer_a[k] = ringbuffer_b[n + k]

\* C34: rings A and B stay frame-aligned.  Between callbacks the k-th frame
\* waiting in ring A is the k-th frame waiting in ring B; once a callback
\* has read count frames from ring A, ring B still holds those count
\* frames, followed by the frames waiting in ring A.
C34_FrameAligned ==
    (~fault /\ rings = "alloc") =>
        IF jpc = "readB"
        THEN Len(ringbuffer_b) >= count /\ AlignedFrom(count)
        ELSE AlignedFrom(0)


\* C35: the target is never called from within a callback: a step of the
\* callback, its note-on and note-off events included, makes no call of cb_fn.
C35_NoCallFromCallback == cbCtx = "jack" => cbCalls = <<>>

\* the calls for kind k among the calls a step made
CallsOfKind(calls, k) == SelectSeq(calls, LAMBDA c : c[1] = k)

\* a step treated a field as a change (one call with the current value, the
\* shadow made equal to it) or as no change (no call, the shadow kept)
Treated(k, cur, last, lastAfter, changed) ==
    IF changed
    THEN CallsOfKind(cbCalls', k) = <<<<k, cur>>>> /\ lastAfter = cur
    ELSE CallsOfKind(cbCalls', k) = <<>> /\ lastAfter = last

PositionMoved == FAbs(get_position(play_pos_frames) - last_position) >= 10
GainMoved == FAbs(gain - last_gain) >= 1

C37_SnapshotHistory ==
    [][/\ saveSnapshot =>
            /\ m_vSnapshots' = Append(SubSeq(m_vSnapshots, 1, m_vSnapshotPos), m_vEvents)
            /\ m_vSnapshotPos' = Len(m_vSnapshots')
       /\ (patOp.name = "saveSnapshot" /\ (redo \/ redoAll)) =>
            (~patRet' /\ m_vEvents' = m_vEvents /\ m_vSnapshotPos' = m_vSnapshotPos)
       /\ patOp'.name # "none" =>
            (Len(m_vSnapshots') >= 1 /\ m_vSnapshotPos' \in 1..Len(m_vSnapshots'))
      ]_vars

\* redoAll has found the cursor on the newest of several snapshots
C37_Witness ==
    /\ patOp.name = "redoAll"
    /\ ~patRet
    /\ Len(m_vSnapshots) >= 2
    /\ m_vSnapshotPos = Len(m_vSnapshots)

\* the steps of ev and the steps from position on for duration have a step
\* in common
Intersects(ev, position, duration) ==
    ev.position < position + duration /\ position < ev.position + ev.duration

\* the events of sev with this command and value that do so
Overlapping(sev, position, command, value1, duration) ==
    {i \in 1..Len(sev) : /\ sev[i].command = command
                         /\ sev[i].value1 = value1
                         /\ Intersects(sev[i], position, duration)}

\* C38: after an event is added, no other event of the same command and
\* value overlaps its steps, whether that event started inside them, ended
\* inside them or enclosed them: the one event that is there is the new one.
C38_NoOverlapAfterAdd ==
    [][\A step \in NoteSteps, n \in EditNotes, d \in NoteDurations :
            (addNote(step, n, d) /\ patRet') =>
                Cardinality(Overlapping(m_vEvents', step, NOTE_ON, n, d)) = 1
      ]_vars

\* the events are in the order of their positions
EventsOrdered(sev) ==
    \A i \in 1..Len(sev), j \in 1..Len(sev) :
        i < j => sev[i].position <= sev[j].position

\* every event is at a step of the pattern
EventsWithin(sev, steps) == \A i \in 1..Len(sev) : sev[i].position < steps

\* C40: after any calls of addNote, addProgramChange, addControl,
\* removeNote, setBeatsInPattern and setStepsPerBeat the events are in the
\* order of their positions and every position is below beats times steps
\* per beat; setBeatsInPattern removes the events at or after the new last
\* step and no other.
C40_OrderedWithinPattern ==
    [][/\ patOp'.name # "none" =>
            /\ EventsOrdered(m_vEvents')
            /\ EventsWithin(m_vEvents', Steps(m_nBeats', m_nStepsPerBeat'))
       /\ \A b \in EditBeats :
            setBeatsInPattern(b) =>
                m_vEvents' = SelectSeq(m_vEvents,
                                LAMBDA ev : ev.position < Steps(b, m_nStepsPerBeat))
      ]_vars

\* adding value to the note of some note event of sev leaves 0..127
LeavesRange(sev, value) ==
    \E i \in 1..Len(sev) :
        /\ sev[i].command = NOTE_ON
        /\ (sev[i].value1 + value > 127 \/ sev[i].value1 + value < 0)

=============================================================================
